---- MODULE Spec2Model ----
(***************************************************************************)
(* CipherHub vault core: vault.Manager (internal/vault/vault.go) over the  *)
(* crypto engine (internal/crypto) and the storage collaborators           *)
(* (internal/storage).  Two managers, each bound to a local store, share   *)
(* one remote store.                                                       *)
(*                                                                         *)
(* Value conventions.  A Go string that may hold base64 text is a record:  *)
(* Str(x) is the literal text x, [b64 |-> bytes] is the base64 text of a   *)
(* non-empty byte string.  A byte string is a record as well.  File        *)
(* contents are records whose fields are the JSON keys.  Names, usernames, *)
(* urls, tags and plaintext inputs are TLA+ strings.                       *)
(***************************************************************************)
EXTENDS Integers, Sequences, FiniteSets, TLC

(* ------------------------------ bounds --------------------------------- *)

\* number of readings of the wall clock a behaviour may take
MaxClock == 3
\* length in bytes of the longest content handed to LocalStorage.Write
MaxBytes == 2

(* -------------------------- program constants -------------------------- *)

saltLength == 16
keyLength == 32
nonceLength == 12

(* ------------------------------ inputs --------------------------------- *)

Mgrs == {"A", "B"}
\* the vault paths of the local stores
Paths == {"pA", "pB"}
MasterPasswords == {"m1"}
Names == {"a", "A"}
Passwords == {"p1"}
NotesIn == {"", "n1"}
\* the sparse update maps tried by UpdateEntry
UpdateMaps ==
  { [password |-> "p2", notes |-> "n2"],
    [notes |-> ""],
    [username |-> "u2", name |-> "zz"] }
\* what may go wrong inside a call: nothing, the store's Write, the random source
Faults == {"none", "write", "rand"}

(* --------------------------- strings and bytes ------------------------- *)

Str(x) == [str |-> x]
NilBytes == [len |-> 0, val |-> 0]
\* a pointer that is nil
Nil == [nil |-> TRUE]

\* base64.StdEncoding.EncodeToString: the empty byte string encodes to ""
EncodeToString(b) ==
  IF b = NilBytes THEN Str("") ELSE [b64 |-> b]

\* DecodeString that accepts any text
DecodeString_lenient(s) ==
  IF "b64" \in DOMAIN s THEN [ok |-> TRUE, val |-> s.b64] ELSE [ok |-> TRUE, val |-> NilBytes]

\* base64.StdEncoding.DecodeString: text that is not base64 is an error
DecodeString(s) ==
  IF s = Str("") THEN [ok |-> TRUE, val |-> NilBytes]
  ELSE IF "b64" \in DOMAIN s THEN [ok |-> TRUE, val |-> s.b64]
  ELSE [ok |-> FALSE]

(* ------------------------------- crypto -------------------------------- *)

\* GenerateSalt that returns the same bytes on every call
GenerateSalt_fixed(r) == [len |-> saltLength, val |-> 0]

\* GenerateSalt: saltLength bytes read from the random source (draw r)
GenerateSalt(r) == [len |-> saltLength, val |-> r]

\* deriveKey: Argon2id of (password, salt), a function of both
deriveKey(password, salt) == [pw |-> password, salt |-> salt]

\* NewCrypto that derives the key from the password alone
NewCrypto_noSalt(masterPassword, salt) == [key |-> deriveKey(masterPassword, NilBytes)]

\* NewCrypto: the engine holding the derived key
NewCrypto(masterPassword, salt) == [key |-> deriveKey(masterPassword, salt)]

\* the nonce Encrypt seals with: the bytes start as zero and the error of the read
\* from the random source is dropped, so a failed read leaves them zero
readNonce(r, fault) == IF fault = "nonce" THEN 0 ELSE r

\* Encrypt that returns its input unsealed
Encrypt_plain(c, r, plaintext) == Str(plaintext)

\* Encrypt that seals under the drawn nonce and prepends other bytes
Encrypt_otherNonce(c, r, plaintext) ==
  EncodeToString([nonce |-> r + 1, sealed |-> [key |-> c.key, nonce |-> r, pt |-> plaintext]])

\* Crypto.Encrypt: base64(nonce || Seal(key, nonce, plaintext)), nonce = draw r
Encrypt(c, r, plaintext) ==
  EncodeToString([nonce |-> r, sealed |-> [key |-> c.key, nonce |-> r, pt |-> plaintext]])

\* Decrypt that opens a sealed text under any key
Decrypt_anyKey(c, s) ==
  LET d == DecodeString(s)
  IN IF ~d.ok THEN [err |-> "invalid ciphertext", pt |-> ""]
     ELSE IF "sealed" \notin DOMAIN d.val THEN [err |-> "decryption failed", pt |-> ""]
     ELSE [err |-> "ok", pt |-> d.val.sealed.pt]

\* Decrypt without authentication: under another key the bytes open to other text
Decrypt_unauthenticated(c, s) ==
  LET d == DecodeString(s)
  IN IF ~d.ok THEN [err |-> "invalid ciphertext", pt |-> ""]
     ELSE IF "sealed" \notin DOMAIN d.val
     THEN (IF d.val.len < nonceLength
           THEN [err |-> "invalid nonce length", pt |-> ""]
           ELSE [err |-> "decryption failed", pt |-> ""])
     ELSE IF d.val.sealed.key = c.key /\ d.val.sealed.nonce = d.val.nonce
     THEN [err |-> "ok", pt |-> d.val.sealed.pt]
     ELSE [err |-> "ok", pt |-> ""]

\* Decrypt that splits the nonce off without looking at the length
Decrypt_noLengthCheck(c, s) ==
  LET d == DecodeString(s)
  IN IF ~d.ok THEN [err |-> "invalid ciphertext", pt |-> ""]
     ELSE IF "sealed" \notin DOMAIN d.val THEN [err |-> "decryption failed", pt |-> ""]
     ELSE IF d.val.sealed.key = c.key /\ d.val.sealed.nonce = d.val.nonce
     THEN [err |-> "ok", pt |-> d.val.sealed.pt]
     ELSE [err |-> "decryption failed", pt |-> ""]

\* Decrypt that wants at least one byte after the nonce and the tag
Decrypt_strictLength(c, s) ==
  LET d == DecodeString(s)
  IN IF ~d.ok THEN [err |-> "invalid ciphertext", pt |-> ""]
     ELSE IF "sealed" \notin DOMAIN d.val
     THEN (IF d.val.len < nonceLength
           THEN [err |-> "invalid nonce length", pt |-> ""]
           ELSE [err |-> "decryption failed", pt |-> ""])
     ELSE IF d.val.sealed.pt = "" THEN [err |-> "invalid nonce length", pt |-> ""]
     ELSE IF d.val.sealed.key = c.key /\ d.val.sealed.nonce = d.val.nonce
     THEN [err |-> "ok", pt |-> d.val.sealed.pt]
     ELSE [err |-> "decryption failed", pt |-> ""]

\* Crypto.Decrypt: base64 decoding, the nonce split off, the rest opened under the
\* key; bytes sealed under another key or nonce, or not sealed at all, do not open
Decrypt(c, s) ==
  LET d == DecodeString(s)
  IN IF ~d.ok THEN [err |-> "invalid ciphertext", pt |-> ""]
     ELSE IF "sealed" \notin DOMAIN d.val
     THEN (IF d.val.len < nonceLength
           THEN [err |-> "invalid nonce length", pt |-> ""]
           ELSE [err |-> "decryption failed", pt |-> ""])
     ELSE IF d.val.sealed.key = c.key /\ d.val.sealed.nonce = d.val.nonce
     THEN [err |-> "ok", pt |-> d.val.sealed.pt]
     ELSE [err |-> "decryption failed", pt |-> ""]

\* Clear that leaves the key bytes as they were
Clear_kept(key) == key

\* Crypto.Clear: every byte of the key buffer set to zero
Clear(key) == [len |-> keyLength, val |-> 0]

\* a checksum taken over the entries alone
ComputeChecksum_entriesOnly(data) == EncodeToString([sha256 |-> data.entries])

\* ComputeChecksum: base64(SHA-256(data))
ComputeChecksum(data) == EncodeToString([sha256 |-> data])

\* VerifyChecksum: the checksum of data compared with the expected text
VerifyChecksum(data, expectedChecksum) == ComputeChecksum(data) = expectedChecksum

(* -------------------------------- time --------------------------------- *)

\* time.Now(): a wall-clock reading that carries a monotonic reading
TimeNow(t) == [wall |-> t, mono |-> TRUE]
\* Time.MarshalJSON: RFC 3339 text of the wall clock; the monotonic reading is dropped
TimeMarshal(x) == [rfc3339 |-> x.wall]
\* Time.UnmarshalJSON
TimeUnmarshal(j) == [wall |-> j.rfc3339, mono |-> FALSE]

(* ------------------------------- types --------------------------------- *)

\* types.NewVault at clock reading t
NewVault(t) ==
  [ Version |-> "1.0", Salt |-> Str(""), Checksum |-> Str(""), Entries |-> <<>>,
    CreatedAt |-> TimeNow(t), UpdatedAt |-> TimeNow(t), Metadata |-> {} ]

\* types.NewEntry at clock reading t with the identifier drawn as r
NewEntry(name, r, t) ==
  [ ID |-> [uuid |-> r], Name |-> name, Username |-> "", Password |-> Str(""),
    URL |-> "", Notes |-> Str(""), CreatedAt |-> TimeNow(t),
    UpdatedAt |-> TimeNow(t), Tags |-> <<>> ]

(* ----------------------------- JSON coding ----------------------------- *)

EntryKeys(e) ==
  {"id", "name", "username", "password", "created_at", "updated_at"}
    \cup (IF e.URL # "" THEN {"url"} ELSE {})
    \cup (IF e.Notes # Str("") THEN {"notes"} ELSE {})
    \cup (IF e.Tags # <<>> THEN {"tags"} ELSE {})

\* json encoding of types.Entry: url, notes and tags are omitempty
MarshalEntry(e) ==
  [ k \in EntryKeys(e) |->
      CASE k = "id" -> e.ID
        [] k = "name" -> e.Name
        [] k = "username" -> e.Username
        [] k = "password" -> e.Password
        [] k = "url" -> e.URL
        [] k = "notes" -> e.Notes
        [] k = "created_at" -> TimeMarshal(e.CreatedAt)
        [] k = "updated_at" -> TimeMarshal(e.UpdatedAt)
        [] k = "tags" -> e.Tags ]

\* a decoding of types.Entry that loses the username
UnmarshalEntry_lossy(j) ==
  [ ID |-> j.id, Name |-> j.name, Username |-> "", Password |-> j.password,
    URL |-> "", Notes |-> Str(""), CreatedAt |-> TimeUnmarshal(j.created_at),
    UpdatedAt |-> TimeUnmarshal(j.updated_at), Tags |-> <<>> ]

\* json decoding of types.Entry: an absent key leaves the zero value
UnmarshalEntry(j) ==
  [ ID |-> j.id, Name |-> j.name, Username |-> j.username, Password |-> j.password,
    URL |-> IF "url" \in DOMAIN j THEN j.url ELSE "",
    Notes |-> IF "notes" \in DOMAIN j THEN j.notes ELSE Str(""),
    CreatedAt |-> TimeUnmarshal(j.created_at),
    UpdatedAt |-> TimeUnmarshal(j.updated_at),
    Tags |-> IF "tags" \in DOMAIN j THEN j.tags ELSE <<>> ]

VaultKeys(v) ==
  {"version", "salt", "checksum", "entries", "created_at", "updated_at"}
    \cup (IF v.Metadata # {} THEN {"metadata"} ELSE {})

\* json.MarshalIndent of types.Vault: metadata is omitempty
MarshalIndent(v) ==
  [ k \in VaultKeys(v) |->
      CASE k = "version" -> v.Version
        [] k = "salt" -> v.Salt
        [] k = "checksum" -> v.Checksum
        [] k = "entries" -> [i \in 1..Len(v.Entries) |-> MarshalEntry(v.Entries[i])]
        [] k = "created_at" -> TimeMarshal(v.CreatedAt)
        [] k = "updated_at" -> TimeMarshal(v.UpdatedAt)
        [] k = "metadata" -> v.Metadata ]

\* file content that is not a JSON object
Garbage == [raw |-> "not json"]
\* a store path at which no file exists
NoFile == [nofile |-> TRUE]

IsVaultJSON(data) == "version" \in DOMAIN data

\* a decoding that rejects a vault whose checksum is not that of its content
Unmarshal_verified(data) ==
  IF IsVaultJSON(data) /\ data.checksum = ComputeChecksum([data EXCEPT !.checksum = Str("")])
  THEN [ ok |-> TRUE,
         v |-> [ Version |-> data.version, Salt |-> data.salt,
                 Checksum |-> data.checksum,
                 Entries |-> [i \in 1..Len(data.entries) |-> UnmarshalEntry(data.entries[i])],
                 CreatedAt |-> TimeUnmarshal(data.created_at),
                 UpdatedAt |-> TimeUnmarshal(data.updated_at),
                 Metadata |-> IF "metadata" \in DOMAIN data THEN data.metadata ELSE {} ] ]
  ELSE [ok |-> FALSE]

\* json.Unmarshal into types.Vault
Unmarshal(data) ==
  IF IsVaultJSON(data)
  THEN [ ok |-> TRUE,
         v |-> [ Version |-> data.version, Salt |-> data.salt,
                 Checksum |-> data.checksum,
                 Entries |-> [i \in 1..Len(data.entries) |-> UnmarshalEntry(data.entries[i])],
                 CreatedAt |-> TimeUnmarshal(data.created_at),
                 UpdatedAt |-> TimeUnmarshal(data.updated_at),
                 Metadata |-> IF "metadata" \in DOMAIN data THEN data.metadata ELSE {} ] ]
  ELSE [ok |-> FALSE]

\* save that computes the checksum before it stamps updatedAt
saveStamp_stale(v, t) ==
  [v EXCEPT !.UpdatedAt = TimeNow(t),
            !.Checksum = ComputeChecksum(MarshalIndent([v EXCEPT !.Checksum = Str("")]))]

\* Manager.save up to the write: the vault stamped at t with its checksum recomputed
saveStamp(v, t) ==
  LET blank == [v EXCEPT !.UpdatedAt = TimeNow(t), !.Checksum = Str("")]
  IN [blank EXCEPT !.Checksum = ComputeChecksum(MarshalIndent(blank))]

\* a vault file whose salt field is not base64 text
BadSaltFile ==
  MarshalIndent([NewVault(0) EXCEPT !.Salt = Str("!!")])

(* ------------------------------- state --------------------------------- *)

VARIABLES
  mgr,     \* mgr[m]: the fields of Manager m (crypto, vault, salt, open)
  bind,    \* bind[m]: the vault path of the LocalStorage that m was constructed with
  local,   \* local[p]: content of the file at vault path p
  remote,  \* content at the remote path
  clock,   \* wall-clock readings taken so far
  rnd,     \* values drawn from the random source so far
  pulled,  \* pulled[m]: a Pull of manager m has succeeded
  dropped, \* dropped[m]: the key bytes of the engine m let go of last, as they are now
  disk,    \* byte-level view of the files LocalStorage.Write touches, by file name
  wr,      \* the LocalStorage.Write call in progress, if any
  last     \* the call that returned last: operation, manager, entry name, error

vars == <<mgr, bind, local, remote, clock, rnd, pulled, dropped, disk, wr, last>>

\* NewManager: open false, every other field nil
NewManager == [crypto |-> Nil, vault |-> Nil, salt |-> NilBytes, open |-> FALSE]

\* the record of a call that has returned: arg is the entry name it was given, if any
Ret(op, m, arg, err) == [op |-> op, m |-> m, arg |-> arg, err |-> err]

\* the key buffers after manager m lets go of its engine, cleared first or not
release(m, cleared) ==
  IF mgr[m].crypto = Nil THEN dropped
  ELSE [dropped EXCEPT ![m] = IF cleared THEN Clear(mgr[m].crypto.key) ELSE mgr[m].crypto.key]

\* a Write that works on the vault path itself
tmpPath_inPlace(path) == path

\* the file names LocalStorage.Write works on: the vault path and its temporary file
tmpPath(path) == path \o ".tmp"
FileNames == {"pA", tmpPath("pA")}
\* no Write call in progress
Idle == [pc |-> "idle"]

\* the file an earlier process's Init left behind (clock reading 0, draw 0)
SeedFile ==
  MarshalIndent(saveStamp([NewVault(0) EXCEPT !.Salt = EncodeToString(GenerateSalt(0))], 0))

\* the state after NewManager for each manager, with the files in place
Start(files) ==
  /\ mgr = [m \in Mgrs |-> NewManager]
  /\ bind = [m \in Mgrs |-> IF m = "A" THEN "pA" ELSE "pB"]
  /\ local \in [Paths -> files]
  /\ local["pB"] = NoFile
  /\ remote = NoFile
  /\ clock = 0
  /\ rnd = 0
  /\ pulled = [m \in Mgrs |-> FALSE]
  /\ dropped = [m \in Mgrs |-> Nil]
  /\ disk = [f \in FileNames |-> NoFile]
  /\ wr = Idle
  /\ last = Ret("NewManager", "A", "", "ok")

\* at A's vault path: no file, a file that is no JSON, a vault file with a damaged salt
Init == Start({NoFile, Garbage, BadSaltFile})

(* ------------------------------ storage -------------------------------- *)

\* Exists that never finds the file
Exists_never(file) == FALSE

\* Storage.Exists
Exists(file) == file # NoFile

\* Storage.Read
Read(file) ==
  IF ~Exists(file) THEN [err |-> "storage: not found"] ELSE [err |-> "ok", data |-> file]

\* Write that reports success and leaves the old content
Write_dropped(file, data, fault) == file

\* a Write that keeps a file that is already there
Write_keep(file, data, fault) == IF file # NoFile THEN file ELSE data

\* Storage.Write: the content afterwards; a failed write leaves the old content
\* a Write that keeps the entries the file holds and the data lacks
Write_merge(file, data, fault) ==
  IF fault = "write" THEN file
  ELSE IF IsVaultJSON(file) /\ IsVaultJSON(data)
  THEN LET Absent(e) == \A i \in DOMAIN data.entries : data.entries[i].id # e.id
       IN [data EXCEPT !.entries = SelectSeq(file.entries, Absent) \o @]
  ELSE data

Write(file, data, fault) == IF fault = "write" THEN file ELSE data

\* a Write whose failure is not reported
WriteErr_silent(fault) == "ok"

\* the error Storage.Write returns
WriteErr(fault) == IF fault = "write" THEN "storage: write failed" ELSE "ok"

(* ------------------------------- Manager ------------------------------- *)

\* Manager.Init
Manager_Init(m, masterPassword, fault) ==
  IF Exists(local[bind[m]])
  THEN /\ last' = Ret("Init", m, "", "vault: already exists")
       /\ UNCHANGED <<mgr, bind, local, remote, clock, rnd, pulled, dropped, disk, wr>>
  ELSE IF fault = "rand"
  THEN /\ last' = Ret("Init", m, "", "vault: random generation failed")
       /\ UNCHANGED <<mgr, bind, local, remote, clock, rnd, pulled, dropped, disk, wr>>
  ELSE
    /\ clock < MaxClock
    /\ LET salt == GenerateSalt(rnd + 1)
           t == clock + 1
           v == saveStamp([NewVault(t) EXCEPT !.Salt = EncodeToString(salt)], t)
       IN /\ mgr' = [mgr EXCEPT ![m] =
                       [ crypto |-> NewCrypto(masterPassword, salt), vault |-> v,
                         salt |-> salt, open |-> TRUE ]]
          /\ local' = [local EXCEPT ![bind[m]] = Write(@, MarshalIndent(v), fault)]
    /\ clock' = clock + 1
    /\ rnd' = rnd + 1
    /\ dropped' = release(m, FALSE)
    /\ last' = Ret("Init", m, "", WriteErr(fault))
    /\ UNCHANGED <<bind, remote, pulled, disk, wr>>

\* Open without the check that the manager is already open
alreadyOpen_skipped(mg) == FALSE

\* Manager.Open, its first check
alreadyOpen(mg) == mg.open

\* Manager.Open
Manager_Open(m, masterPassword) ==
  LET rd == Read(local[bind[m]])
      parsed == Unmarshal(rd.data)
      salt == DecodeString(parsed.v.Salt)
  IN
  IF alreadyOpen(mgr[m])
  THEN /\ last' = Ret("Open", m, "", "vault: already open")
       /\ UNCHANGED <<mgr, bind, local, remote, clock, rnd, pulled, dropped, disk, wr>>
  ELSE IF rd.err # "ok"
  THEN /\ last' = Ret("Open", m, "", rd.err)
       /\ UNCHANGED <<mgr, bind, local, remote, clock, rnd, pulled, dropped, disk, wr>>
  ELSE IF ~parsed.ok \/ ~salt.ok
  THEN /\ last' = Ret("Open", m, "", "vault: corrupted data")
       /\ UNCHANGED <<mgr, bind, local, remote, clock, rnd, pulled, dropped, disk, wr>>
  ELSE
    /\ mgr' = [mgr EXCEPT ![m] =
                 [ crypto |-> NewCrypto(masterPassword, salt.val), vault |-> parsed.v,
                   salt |-> salt.val, open |-> TRUE ]]
    /\ dropped' = release(m, FALSE)
    /\ last' = Ret("Open", m, "", "ok")
    /\ UNCHANGED <<bind, local, remote, clock, rnd, pulled, disk, wr>>

\* Manager.Close (Crypto.Clear zeroes the key of the engine that is dropped)
\* a Close that lets go of the key object and keeps the vault and the salt
Manager_Close_keepsVault(m) ==
  /\ mgr' = [mgr EXCEPT ![m].crypto = Nil, ![m].open = FALSE]
  /\ dropped' = release(m, TRUE)
  /\ last' = Ret("Close", m, "", "ok")
  /\ UNCHANGED <<bind, local, remote, clock, rnd, pulled, disk, wr>>

Manager_Close(m) ==
  /\ mgr' = [mgr EXCEPT ![m] = NewManager]
  /\ dropped' = release(m, TRUE)
  /\ last' = Ret("Close", m, "", "ok")
  /\ UNCHANGED <<bind, local, remote, clock, rnd, pulled, disk, wr>>

\* strings.ToLower on the letters the names use
ToLower(s) == IF s = "A" THEN "a" ELSE s

\* findEntryIndexByName comparing names without regard to letter case
findEntryIndexByName_fold(v, name) ==
  LET hits == {i \in 1..Len(v.Entries) : ToLower(v.Entries[i].Name) = ToLower(name)}
  IN IF hits = {} THEN 0 ELSE CHOOSE i \in hits : \A k \in hits : i <= k

\* Manager.findEntryIndexByName: the first index holding the name, 0 when none does
findEntryIndexByName(v, name) ==
  LET hits == {i \in 1..Len(v.Entries) : v.Entries[i].Name = name}
  IN IF hits = {} THEN 0 ELSE CHOOSE i \in hits : \A k \in hits : i <= k

\* Manager.findEntryByName: whether an entry with exactly this name is present
findEntryByName(v, name) == findEntryIndexByName(v, name) # 0

\* the entry AddEntry builds from the draws after r: the password always sealed,
\* the notes only when non-empty
addEntryBuild(c, name, username, password, url, notes, tags, r, t, fault) ==
  [ NewEntry(name, r + 1, t) EXCEPT
      !.Username = username,
      !.Password = Encrypt(c, readNonce(r + 2, fault), password),
      !.URL = url,
      !.Notes = IF notes # "" THEN Encrypt(c, readNonce(r + 3, fault), notes) ELSE Str(""),
      !.Tags = tags ]

\* the number of draws AddEntry takes: the id, the password nonce, the notes nonce
addEntryDraws(notes) == IF notes # "" THEN 3 ELSE 2

\* Manager.AddEntry
Manager_AddEntry(m, name, username, password, url, notes, tags, fault) ==
  IF ~mgr[m].open
  THEN /\ last' = Ret("AddEntry", m, name, "vault: not open")
       /\ UNCHANGED <<mgr, bind, local, remote, clock, rnd, pulled, dropped, disk, wr>>
  ELSE IF findEntryByName(mgr[m].vault, name)
  THEN /\ last' = Ret("AddEntry", m, name, "vault: entry already exists")
       /\ UNCHANGED <<mgr, bind, local, remote, clock, rnd, pulled, dropped, disk, wr>>
  ELSE IF fault = "rand"
  THEN /\ last' = Ret("AddEntry", m, name, "vault: random generation failed")
       /\ UNCHANGED <<mgr, bind, local, remote, clock, rnd, pulled, dropped, disk, wr>>
  ELSE
    /\ clock < MaxClock
    /\ LET t == clock + 1
           entry == addEntryBuild(mgr[m].crypto, name, username, password, url, notes, tags, rnd, t, fault)
           v == saveStamp([mgr[m].vault EXCEPT !.Entries = Append(@, entry)], t)
       IN /\ mgr' = [mgr EXCEPT ![m].vault = v]
          /\ local' = [local EXCEPT ![bind[m]] = Write(@, MarshalIndent(v), fault)]
    /\ clock' = clock + 1
    /\ rnd' = rnd + addEntryDraws(notes)
    /\ last' = Ret("AddEntry", m, name, WriteErr(fault))
    /\ UNCHANGED <<bind, remote, pulled, dropped, disk, wr>>

\* the draws UpdateEntry takes for the password nonce and for the notes nonce
updatePwDraws(updates) == IF "password" \in DOMAIN updates THEN 1 ELSE 0
updateNotesDraws(updates) ==
  IF "notes" \in DOMAIN updates /\ updates.notes # "" THEN 1 ELSE 0

\* field assignments that also take a new name from the map
updateEntryApply_renames(c, entry, updates, r, t, fault) ==
  LET has(k) == k \in DOMAIN updates
  IN [ entry EXCEPT
         !.Name = IF has("name") THEN updates.name ELSE @,
         !.Username = IF has("username") THEN updates.username ELSE @,
         !.Password = IF has("password") THEN Encrypt(c, readNonce(r + 1, fault), updates.password) ELSE @,
         !.URL = IF has("url") THEN updates.url ELSE @,
         !.Notes = IF has("notes")
                   THEN (IF updates.notes = "" THEN Str("")
                         ELSE Encrypt(c, readNonce(r + updatePwDraws(updates) + 1, fault), updates.notes))
                   ELSE @,
         !.UpdatedAt = TimeNow(t) ]

\* the field assignments of UpdateEntry: only the four known keys, when present
updateEntryApply(c, entry, updates, r, t, fault) ==
  LET has(k) == k \in DOMAIN updates
  IN [ entry EXCEPT
         !.Username = IF has("username") THEN updates.username ELSE @,
         !.Password = IF has("password") THEN Encrypt(c, readNonce(r + 1, fault), updates.password) ELSE @,
         !.URL = IF has("url") THEN updates.url ELSE @,
         !.Notes = IF has("notes")
                   THEN (IF updates.notes = "" THEN Str("")
                         ELSE Encrypt(c, readNonce(r + updatePwDraws(updates) + 1, fault), updates.notes))
                   ELSE @,
         !.UpdatedAt = TimeNow(t) ]

\* the record of an UpdateEntry call that has returned, with the map it was given
RetUpdate(m, name, updates, err) ==
  [op |-> "UpdateEntry", m |-> m, arg |-> name, err |-> err, updates |-> updates]

\* Manager.UpdateEntry
Manager_UpdateEntry(m, name, updates, fault) ==
  LET idx == findEntryIndexByName(mgr[m].vault, name)
  IN
  IF ~mgr[m].open
  THEN /\ last' = RetUpdate(m, name, updates, "vault: not open")
       /\ UNCHANGED <<mgr, bind, local, remote, clock, rnd, pulled, dropped, disk, wr>>
  ELSE IF idx = 0
  THEN /\ last' = RetUpdate(m, name, updates, "vault: entry not found")
       /\ UNCHANGED <<mgr, bind, local, remote, clock, rnd, pulled, dropped, disk, wr>>
  ELSE
    /\ clock < MaxClock
    /\ LET t == clock + 1
           entry == updateEntryApply(mgr[m].crypto, mgr[m].vault.Entries[idx], updates, rnd, t, fault)
           v == saveStamp([mgr[m].vault EXCEPT !.Entries[idx] = entry], t)
       IN /\ mgr' = [mgr EXCEPT ![m].vault = v]
          /\ local' = [local EXCEPT ![bind[m]] = Write(@, MarshalIndent(v), fault)]
    /\ clock' = clock + 1
    /\ rnd' = rnd + updatePwDraws(updates) + updateNotesDraws(updates)
    /\ last' = RetUpdate(m, name, updates, WriteErr(fault))
    /\ UNCHANGED <<bind, remote, pulled, dropped, disk, wr>>

\* a removal that leaves the entries as they were
removeAt_none(entries, idx) == entries

\* a removal that drops the last entry whatever the index
removeAt_last(entries, idx) == SubSeq(entries, 1, Len(entries) - 1)

\* append(entries[:idx], entries[idx+1:]...)
removeAt(entries, idx) ==
  [i \in 1..(Len(entries) - 1) |-> IF i < idx THEN entries[i] ELSE entries[i + 1]]

\* Manager.DeleteEntry
Manager_DeleteEntry(m, name, fault) ==
  LET idx == findEntryIndexByName(mgr[m].vault, name)
  IN
  IF ~mgr[m].open
  THEN /\ last' = Ret("DeleteEntry", m, name, "vault: not open")
       /\ UNCHANGED <<mgr, bind, local, remote, clock, rnd, pulled, dropped, disk, wr>>
  ELSE IF idx = 0
  THEN /\ last' = Ret("DeleteEntry", m, name, "vault: entry not found")
       /\ UNCHANGED <<mgr, bind, local, remote, clock, rnd, pulled, dropped, disk, wr>>
  ELSE
    /\ clock < MaxClock
    /\ LET v == saveStamp([mgr[m].vault EXCEPT !.Entries = removeAt(@, idx)], clock + 1)
       IN /\ mgr' = [mgr EXCEPT ![m].vault = v]
          /\ local' = [local EXCEPT ![bind[m]] = Write(@, MarshalIndent(v), fault)]
    /\ clock' = clock + 1
    /\ last' = Ret("DeleteEntry", m, name, WriteErr(fault))
    /\ UNCHANGED <<bind, remote, rnd, pulled, dropped, disk, wr>>

\* a Sync that saves the vault before it pushes it
Manager_Sync_saves(m, fault) ==
  IF ~mgr[m].open
  THEN /\ last' = Ret("Sync", m, "", "vault: not open")
       /\ UNCHANGED <<mgr, bind, local, remote, clock, rnd, pulled, dropped, disk, wr>>
  ELSE
    /\ clock < MaxClock
    /\ LET v == saveStamp(mgr[m].vault, clock + 1)
       IN /\ mgr' = [mgr EXCEPT ![m].vault = v]
          /\ local' = [local EXCEPT ![bind[m]] = MarshalIndent(v)]
          /\ remote' = Write(remote, MarshalIndent(v), fault)
    /\ clock' = clock + 1
    /\ last' = Ret("Sync", m, "", WriteErr(fault))
    /\ UNCHANGED <<bind, rnd, pulled, dropped, disk, wr>>

\* Manager.Sync (push): the in-memory vault serialized as it stands
Manager_Sync(m, fault) ==
  IF ~mgr[m].open
  THEN /\ last' = Ret("Sync", m, "", "vault: not open")
       /\ UNCHANGED <<mgr, bind, local, remote, clock, rnd, pulled, dropped, disk, wr>>
  ELSE
    /\ remote' = Write(remote, MarshalIndent(mgr[m].vault), fault)
    /\ last' = Ret("Sync", m, "", WriteErr(fault))
    /\ UNCHANGED <<mgr, bind, local, clock, rnd, pulled, dropped, disk, wr>>

\* a Pull that closes the manager before it looks at the remote bytes
Manager_Pull_closesFirst(m, masterPassword) ==
  LET rd == Read(remote)
      parsed == Unmarshal(rd.data)
      salt == DecodeString(parsed.v.Salt)
      failed == rd.err # "ok" \/ ~parsed.ok \/ ~salt.ok
  IN
  /\ mgr' = [mgr EXCEPT ![m] =
               IF failed THEN NewManager
               ELSE [ crypto |-> NewCrypto(masterPassword, salt.val), vault |-> parsed.v,
                      salt |-> salt.val, open |-> TRUE ]]
  /\ pulled' = [pulled EXCEPT ![m] = ~failed \/ @]
  /\ dropped' = release(m, mgr[m].open)
  /\ last' = Ret("Pull", m, "", IF rd.err # "ok" THEN rd.err
                                ELSE IF failed THEN "vault: corrupted data" ELSE "ok")
  /\ UNCHANGED <<bind, local, remote, clock, rnd, disk, wr>>

\* Manager.Pull
Manager_Pull(m, masterPassword) ==
  LET rd == Read(remote)
      parsed == Unmarshal(rd.data)
      salt == DecodeString(parsed.v.Salt)
  IN
  IF rd.err # "ok"
  THEN /\ last' = Ret("Pull", m, "", rd.err)
       /\ UNCHANGED <<mgr, bind, local, remote, clock, rnd, pulled, dropped, disk, wr>>
  ELSE IF ~parsed.ok \/ ~salt.ok
  THEN /\ last' = Ret("Pull", m, "", "vault: corrupted data")
       /\ UNCHANGED <<mgr, bind, local, remote, clock, rnd, pulled, dropped, disk, wr>>
  ELSE
    /\ mgr' = [mgr EXCEPT ![m] =
                 [ crypto |-> NewCrypto(masterPassword, salt.val), vault |-> parsed.v,
                   salt |-> salt.val, open |-> TRUE ]]
    /\ pulled' = [pulled EXCEPT ![m] = TRUE]
    /\ dropped' = release(m, mgr[m].open)
    /\ last' = Ret("Pull", m, "", "ok")
    /\ UNCHANGED <<bind, local, remote, clock, rnd, disk, wr>>

\* a PullFromWebDAV that also loads what it wrote into the open manager
Client_PullFromWebDAV_reloads(m, fault) ==
  IF ~Exists(remote)
  THEN /\ last' = Ret("PullFromWebDAV", m, "", "storage: not found")
       /\ UNCHANGED <<mgr, bind, local, remote, clock, rnd, pulled, dropped, disk, wr>>
  ELSE
    /\ local' = [local EXCEPT ![bind[m]] = Write(@, Read(remote).data, fault)]
    /\ mgr' = IF mgr[m].open /\ Unmarshal(remote).ok /\ fault = "none"
              THEN [mgr EXCEPT ![m].vault = Unmarshal(remote).v]
              ELSE mgr
    /\ last' = Ret("PullFromWebDAV", m, "", WriteErr(fault))
    /\ UNCHANGED <<bind, remote, clock, rnd, pulled, dropped, disk, wr>>

\* Client.PullFromWebDAV, the vault part: the remote bytes, when the remote has any,
\* are written to the local store as they are; the manager is not touched
Client_PullFromWebDAV(m, fault) ==
  IF ~Exists(remote)
  THEN /\ last' = Ret("PullFromWebDAV", m, "", "storage: not found")
       /\ UNCHANGED <<mgr, bind, local, remote, clock, rnd, pulled, dropped, disk, wr>>
  ELSE
    /\ local' = [local EXCEPT ![bind[m]] = Write(@, Read(remote).data, fault)]
    /\ last' = Ret("PullFromWebDAV", m, "", WriteErr(fault))
    /\ UNCHANGED <<mgr, bind, remote, clock, rnd, pulled, dropped, disk, wr>>

(* ------------------------------- queries ------------------------------- *)

\* the record of a call that has returned a value besides its error
RetVal(op, m, arg, err, res) == [op |-> op, m |-> m, arg |-> arg, err |-> err, res |-> res]

\* Manager.GetEntry on the manager fields mg: the error and the entry returned
GetEntry(mg, name) ==
  IF ~mg.open THEN [err |-> "vault: not open", res |-> Nil]
  ELSE IF ~findEntryByName(mg.vault, name) THEN [err |-> "vault: entry not found", res |-> Nil]
  ELSE [err |-> "ok", res |-> mg.vault.Entries[findEntryIndexByName(mg.vault, name)]]

\* Manager.GetDecryptedPassword
GetDecryptedPassword(mg, name) ==
  IF ~mg.open THEN [err |-> "vault: not open", res |-> ""]
  ELSE IF ~findEntryByName(mg.vault, name) THEN [err |-> "vault: entry not found", res |-> ""]
  ELSE LET d == Decrypt(mg.crypto, mg.vault.Entries[findEntryIndexByName(mg.vault, name)].Password)
       IN [err |-> d.err, res |-> d.pt]

\* GetDecryptedNotes that hands every notes field to Decrypt
GetDecryptedNotes_decrypts(mg, name) ==
  IF ~mg.open THEN [err |-> "vault: not open", res |-> ""]
  ELSE IF ~findEntryByName(mg.vault, name) THEN [err |-> "vault: entry not found", res |-> ""]
  ELSE LET d == Decrypt(mg.crypto, mg.vault.Entries[findEntryIndexByName(mg.vault, name)].Notes)
       IN [err |-> d.err, res |-> d.pt]

\* Manager.GetDecryptedNotes: empty notes are returned without decrypting
GetDecryptedNotes(mg, name) ==
  IF ~mg.open THEN [err |-> "vault: not open", res |-> ""]
  ELSE IF ~findEntryByName(mg.vault, name) THEN [err |-> "vault: entry not found", res |-> ""]
  ELSE LET e == mg.vault.Entries[findEntryIndexByName(mg.vault, name)]
           d == Decrypt(mg.crypto, e.Notes)
       IN IF e.Notes = Str("") THEN [err |-> "ok", res |-> ""] ELSE [err |-> d.err, res |-> d.pt]

\* ListEntries that answers on a manager that is not open
ListEntries_unguarded(mg) == [err |-> "ok", res |-> <<>>]

\* Manager.ListEntries: the entries in vault order
ListEntries(mg) ==
  IF ~mg.open THEN [err |-> "vault: not open", res |-> <<>>]
  ELSE [err |-> "ok", res |-> mg.vault.Entries]

\* the pieces a short text splits into around a match
Pieces == {"", "a", "A", "b", "d", "u", "1", "2"}

\* strings.Contains on the short texts the fields hold
Contains(s, q) == \E x \in Pieces, y \in Pieces : s = x \o q \o y

\* a match test that leaves the tags out
searchMatch_noTags(e, q) ==
  \/ Contains(ToLower(e.Name), q)
  \/ Contains(ToLower(e.Username), q)
  \/ Contains(ToLower(e.URL), q)

\* the match test of SearchEntries on one entry, query already lower-cased
searchMatch(e, q) ==
  \/ Contains(ToLower(e.Name), q)
  \/ Contains(ToLower(e.Username), q)
  \/ Contains(ToLower(e.URL), q)
  \/ \E i \in DOMAIN e.Tags : Contains(ToLower(e.Tags[i]), q)

\* the loop of SearchEntries from index i on: an entry whose ID was seen is skipped
RECURSIVE searchFrom(_, _, _, _)
searchFrom(entries, i, q, seen) ==
  IF i > Len(entries) THEN <<>>
  ELSE IF entries[i].ID \notin seen /\ searchMatch(entries[i], q)
  THEN <<entries[i]>> \o searchFrom(entries, i + 1, q, seen \cup {entries[i].ID})
  ELSE searchFrom(entries, i + 1, q, seen)

\* Manager.SearchEntries
SearchEntries(mg, query) ==
  IF ~mg.open THEN [err |-> "vault: not open", res |-> <<>>]
  ELSE [err |-> "ok", res |-> searchFrom(mg.vault.Entries, 1, ToLower(query), {})]

\* a query returns and leaves every field and every store as it was
Returns(op, m, arg, r) ==
  /\ last' = RetVal(op, m, arg, r.err, r.res)
  /\ UNCHANGED <<mgr, bind, local, remote, clock, rnd, pulled, dropped, disk, wr>>

Manager_GetEntry(m, name) == Returns("GetEntry", m, name, GetEntry(mgr[m], name))
Manager_GetDecryptedPassword(m, name) ==
  Returns("GetDecryptedPassword", m, name, GetDecryptedPassword(mgr[m], name))
Manager_GetDecryptedNotes(m, name) ==
  Returns("GetDecryptedNotes", m, name, GetDecryptedNotes(mgr[m], name))
Manager_ListEntries(m) == Returns("ListEntries", m, "", ListEntries(mgr[m]))
Manager_SearchEntries(m, query) ==
  Returns("SearchEntries", m, query, SearchEntries(mgr[m], query))

\* Manager.VaultInfo: the open flag and, when open, version, entry count and times
VaultInfo(mg) ==
  IF ~mg.open THEN [open |-> FALSE]
  ELSE [ open |-> TRUE, version |-> mg.vault.Version, entries |-> Len(mg.vault.Entries),
         created_at |-> mg.vault.CreatedAt, updated_at |-> mg.vault.UpdatedAt ]

Manager_VaultInfo(m) ==
  Returns("VaultInfo", m, "", [err |-> "ok", res |-> VaultInfo(mgr[m])])

\* one query of manager m
Query(m, names, queries) ==
  \/ \E n \in names : Manager_GetEntry(m, n)
  \/ \E n \in names : Manager_GetDecryptedPassword(m, n)
  \/ \E n \in names : Manager_GetDecryptedNotes(m, n)
  \/ Manager_ListEntries(m)
  \/ \E q \in queries : Manager_SearchEntries(m, q)

\* one call of manager m with its arguments drawn from the given sets
Call(m, pws, names, notes, maps, faults) ==
  \/ \E pw \in pws, f \in faults : Manager_Init(m, pw, f)
  \/ \E pw \in pws : Manager_Open(m, pw)
  \/ Manager_Close(m)
  \/ \E n \in names, p \in Passwords, nt \in notes, f \in faults :
       Manager_AddEntry(m, n, "u1", p, "", nt, <<>>, f)
  \/ \E n \in names, u \in maps, f \in faults \ {"rand"} : Manager_UpdateEntry(m, n, u, f)
  \/ \E n \in names, f \in faults \ {"rand"} : Manager_DeleteEntry(m, n, f)
  \/ \E f \in faults \ {"rand"} : Manager_Sync(m, f)
  \/ \E pw \in pws : Manager_Pull(m, pw)

(* One manager, bound to its own local store, with every fault possible.   *)
Next == Call("A", MasterPasswords, Names, NotesIn, UpdateMaps, Faults)

Spec == Init /\ [][Next]_vars

(* One manager whose vault path holds no file or the vault of an earlier   *)
(* process; the stores never fail.                                         *)
InitCRUD == Start({NoFile, SeedFile})

NextCRUD == Call("A", MasterPasswords, Names, NotesIn, UpdateMaps, {"none"})

SpecCRUD == InitCRUD /\ [][NextCRUD]_vars

(* Two managers, each bound to its own local store, sharing the remote     *)
(* store; no file exists at the start and the stores never fail.           *)
InitSync == Start({NoFile})

NextSync ==
  \E m \in Mgrs : Call(m, MasterPasswords, {"a"}, {""}, {[password |-> "p2"]}, {"none"})

SpecSync == InitSync /\ [][NextSync]_vars

(* ----------------------- LocalStorage.Write, by step -------------------- *)

\* the contents handed to Write: byte strings of one to MaxBytes bytes
Contents == {[bytes |-> b] : b \in UNION {[1..n -> {0, 1}] : n \in 1..MaxBytes}}

\* a rename that leaves the source where it was
Rename_copies(d, src, dst) ==
  [f \in DOMAIN d |-> IF f = dst THEN d[src] ELSE d[f]]

\* os.Rename: the source replaces the destination in one step and is gone
Rename(d, src, dst) ==
  [f \in DOMAIN d |-> IF f = dst THEN d[src] ELSE IF f = src THEN NoFile ELSE d[f]]

\* Write is called with data; the content at the vault path is noted as old
Write_Begin(data) ==
  /\ wr.pc \in {"idle", "stopped"}
  /\ wr' = [pc |-> "mkdir", data |-> data, old |-> disk["pA"]]
  /\ UNCHANGED <<mgr, bind, local, remote, clock, rnd, pulled, dropped, disk, last>>

\* os.MkdirAll of the directory
Write_MkdirAll ==
  /\ wr.pc = "mkdir"
  /\ wr' = [wr EXCEPT !.pc = "create"]
  /\ UNCHANGED <<mgr, bind, local, remote, clock, rnd, pulled, dropped, disk, last>>

\* os.WriteFile opens the temporary file, creating or truncating it
Write_Create ==
  /\ wr.pc = "create"
  /\ disk' = [disk EXCEPT ![tmpPath("pA")] = [bytes |-> <<>>]]
  /\ wr' = [wr EXCEPT !.pc = "write"]
  /\ UNCHANGED <<mgr, bind, local, remote, clock, rnd, pulled, dropped, last>>

\* os.WriteFile writes the next byte of data to the temporary file
Write_Byte ==
  /\ wr.pc = "write"
  /\ Len(disk[tmpPath("pA")].bytes) < Len(wr.data.bytes)
  /\ disk' = [disk EXCEPT ![tmpPath("pA")].bytes = Append(@, wr.data.bytes[Len(@) + 1])]
  /\ UNCHANGED <<mgr, bind, local, remote, clock, rnd, pulled, dropped, wr, last>>

\* os.WriteFile has written every byte and closes the temporary file
Write_CloseTmp ==
  /\ wr.pc = "write"
  /\ Len(disk[tmpPath("pA")].bytes) = Len(wr.data.bytes)
  /\ wr' = [wr EXCEPT !.pc = "rename"]
  /\ UNCHANGED <<mgr, bind, local, remote, clock, rnd, pulled, dropped, disk, last>>

\* os.Rename of the temporary file onto the vault path, and the return
\* (a failed rename leaves the call stopped with both files as they were)
Write_Rename ==
  /\ wr.pc = "rename"
  /\ disk' = Rename(disk, tmpPath("pA"), "pA")
  /\ wr' = [wr EXCEPT !.pc = "idle"]
  /\ UNCHANGED <<mgr, bind, local, remote, clock, rnd, pulled, dropped, last>>

\* the call ends where it stands: a step returned an error, or the process was
\* interrupted; the files stay as they are
Write_Interrupt ==
  /\ wr.pc \in {"mkdir", "create", "write", "rename"}
  /\ wr' = [wr EXCEPT !.pc = "stopped"]
  /\ UNCHANGED <<mgr, bind, local, remote, clock, rnd, pulled, dropped, disk, last>>

NextWrite ==
  \/ \E data \in Contents : Write_Begin(data)
  \/ Write_MkdirAll
  \/ Write_Create
  \/ Write_Byte
  \/ Write_CloseTmp
  \/ Write_Rename
  \/ Write_Interrupt

SpecWrite == InitSync /\ [][NextWrite]_vars

(* One manager with two master passwords in play and every query; the      *)
(* stores never fail.                                                      *)
WrongPasswords == {"m1", "m2"}
Queries == {"A", "u"}

NextQuery ==
  \/ Call("A", WrongPasswords, {"a"}, {"", "n1"}, {[password |-> "p2"]}, {"none"})
  \/ Query("A", {"a"}, Queries)

SpecQuery == InitSync /\ [][NextQuery]_vars

(* Two managers sharing the remote store, with the queries that show what  *)
(* a Pull left in memory.                                                  *)
NextPull ==
  \E m \in Mgrs :
    \/ \E pw \in MasterPasswords : Manager_Init(m, pw, "none")
    \/ Manager_AddEntry(m, "a", "u1", "p1", "", "", <<>>, "none")
    \/ Manager_Sync(m, "none")
    \/ \E pw \in WrongPasswords : Manager_Pull(m, pw)
    \/ Manager_GetEntry(m, "a")
    \/ Manager_GetDecryptedPassword(m, "a")
    \/ Manager_ListEntries(m)
    \/ Manager_SearchEntries(m, "A")

SpecPull == InitSync /\ [][NextPull]_vars

(* One manager over a vault file that an earlier session under "m1" left   *)
(* with three entries; the stores never fail.                              *)

\* the entries of that file, as AddEntry built them from the earlier draws
SeedEntries ==
  LET c == NewCrypto("m1", GenerateSalt(0))
  IN << addEntryBuild(c, "a", "u1", "p1", "", "", <<"b">>, -10, 0, "none"),
        addEntryBuild(c, "b", "u1", "p2", "", "n1", <<"b">>, -20, 0, "none"),
        addEntryBuild(c, "A", "u2", "p1", "ab", "", <<>>, -30, 0, "none") >>

SeedEntriesFile ==
  MarshalIndent(saveStamp([NewVault(0) EXCEPT !.Salt = EncodeToString(GenerateSalt(0)),
                                               !.Entries = SeedEntries], 0))

InitEntries == Start({NoFile, SeedEntriesFile}) /\ local["pA"] = SeedEntriesFile

\* the sparse update maps tried on the seeded entries
EntryMaps ==
  { [username |-> "u2"],
    [password |-> "p1"],
    [url |-> "b", notes |-> "n2"],
    [notes |-> ""],
    [name |-> "zz", tags |-> "t", id |-> "x"] }

\* the password AddEntry is called with
AddedPassword == "p2"

NextEntries ==
  \/ \E pw \in WrongPasswords : Manager_Open("A", pw)
  \/ Manager_Close("A")
  \/ Manager_AddEntry("A", "d", "u1", AddedPassword, "", "", <<>>, "none")
  \/ \E u \in EntryMaps : Manager_UpdateEntry("A", "b", u, "none")
  \/ \E n \in {"b", "zz"} : Manager_DeleteEntry("A", n, "none")
  \/ \E n \in {"b", "d"} : Manager_GetDecryptedPassword("A", n)
  \/ Manager_GetDecryptedNotes("A", "b")

SpecEntries == InitEntries /\ [][NextEntries]_vars

(* The same vault file under search.                                       *)
SearchQueries == {"", "a", "A", "b", "1", "n", "p"}

NextSearch ==
  \/ Manager_Open("A", "m1")
  \/ Manager_AddEntry("A", "d", "a", "p2", "", "", <<"a", "A">>, "none")
  \/ \E n \in {"a", "b"} : Manager_DeleteEntry("A", n, "none")
  \/ \E q \in SearchQueries : Manager_SearchEntries("A", q)

SpecSearch == InitEntries /\ [][NextSearch]_vars

(* --------------------- the crypto engine on its own -------------------- *)

CryptoPasswords == {"m1", "m2"}
CryptoSalts == {GenerateSalt(1), GenerateSalt(2)}
Plaintexts == {"", "p1", "n1"}
\* the nonces the random source may hand to Encrypt
CryptoNonces == {0, 1, 2}

\* inputs of Decrypt that no Encrypt made: text that is not base64, the empty
\* text, bytes shorter than a nonce, bytes of a nonce's length and longer
ForeignInputs ==
  { Str("!!"), Str(""),
    [b64 |-> [len |-> 1, val |-> 1]],
    [b64 |-> [len |-> nonceLength - 1, val |-> 1]],
    [b64 |-> [len |-> nonceLength, val |-> 1]],
    [b64 |-> [len |-> nonceLength + keyLength, val |-> 1]] }

\* a ciphertext with a bit of its nonce flipped
Tampered(s) == [b64 |-> [s.b64 EXCEPT !.nonce = @ + 1]]

\* whether Decrypt gets as far as gcm.Open on input s
decryptOpens(s) ==
  LET d == DecodeString(s)
  IN d.ok /\ ("sealed" \in DOMAIN d.val \/ d.val.len >= nonceLength)

InitCrypto == Start({NoFile})

\* Crypto.Encrypt on the engine of (pw, salt), the nonce read being r
Crypto_Encrypt(pw, salt, r, plaintext) ==
  /\ last' = [ op |-> "Encrypt", m |-> "A", arg |-> Str(plaintext), err |-> "ok",
               key |-> NewCrypto(pw, salt).key,
               res |-> Encrypt(NewCrypto(pw, salt), r, plaintext) ]
  /\ UNCHANGED <<mgr, bind, local, remote, clock, rnd, pulled, dropped, disk, wr>>

\* Crypto.Decrypt on the engine of (pw, salt) of input s
Crypto_Decrypt(pw, salt, s) ==
  /\ last' = [ op |-> "Decrypt", m |-> "A", arg |-> s,
               err |-> Decrypt(NewCrypto(pw, salt), s).err,
               key |-> NewCrypto(pw, salt).key,
               res |-> Str(Decrypt(NewCrypto(pw, salt), s).pt),
               opened |-> decryptOpens(s) ]
  /\ UNCHANGED <<mgr, bind, local, remote, clock, rnd, pulled, dropped, disk, wr>>

\* Decrypt is given what the last Encrypt returned, as it is or tampered with, or
\* an input from elsewhere
NextCrypto ==
  \/ \E pw \in CryptoPasswords, salt \in CryptoSalts, r \in CryptoNonces, pt \in Plaintexts :
       Crypto_Encrypt(pw, salt, r, pt)
  \/ \E pw \in CryptoPasswords, salt \in CryptoSalts :
       /\ last.op = "Encrypt"
       /\ \E s \in {last.res, Tampered(last.res)} : Crypto_Decrypt(pw, salt, s)
  \/ \E pw \in CryptoPasswords, salt \in CryptoSalts, s \in ForeignInputs :
       Crypto_Decrypt(pw, salt, s)

SpecCrypto == InitCrypto /\ [][NextCrypto]_vars

(* ------------------- a random source that may fail -------------------- *)

\* what may go wrong inside a call: nothing, or the read of the nonce in Encrypt
NonceFaults == {"none", "nonce"}
NonceMaps == { [password |-> "p1"], [password |-> "p1", notes |-> "n2"] }

NextNonce ==
  \/ Manager_Open("A", "m1")
  \/ \E f \in NonceFaults : Manager_AddEntry("A", "d", "u1", "p1", "", "n1", <<>>, f)
  \/ \E f \in NonceFaults, u \in NonceMaps : Manager_UpdateEntry("A", "b", u, f)
  \/ Manager_GetDecryptedPassword("A", "b")

SpecNonce == InitEntries /\ [][NextNonce]_vars

(* ---------------- a stored file altered behind the program -------------- *)

\* what is altered in a copy of the stored file: the value of one key, or bytes
\* between the JSON tokens
Alterations == {"version", "salt", "checksum", "updated_at", "username", "layout"}

\* the bytes LocalStorage.Read returns after the alteration
Alter(file, kind) ==
  CASE kind = "version" -> [file EXCEPT !.version = "1.1"]
    [] kind = "salt" -> [file EXCEPT !.salt = EncodeToString(GenerateSalt(0 - 1))]
    [] kind = "checksum" -> [file EXCEPT !.checksum = EncodeToString([sha256 |-> NoFile])]
    [] kind = "updated_at" -> [file EXCEPT !.updated_at = [rfc3339 |-> @.rfc3339 + 1]]
    [] kind = "username" -> [file EXCEPT !.entries[1].username = "x"]
    [] kind = "layout" -> file @@ [layout |-> "altered"]

\* the file at A's path is copied, altered, to B's path while B is closed
Tamper(kind) ==
  /\ IsVaultJSON(local["pA"])
  /\ ~mgr["B"].open
  /\ kind = "username" => Len(local["pA"].entries) > 0
  /\ local' = [local EXCEPT !["pB"] = Alter(local["pA"], kind)]
  /\ last' = Ret("Tamper", "B", "", "ok")
  /\ UNCHANGED <<mgr, bind, remote, clock, rnd, pulled, dropped, disk, wr>>

NextTamper ==
  \/ Manager_Init("A", "m1", "none")
  \/ \E m \in Mgrs : Manager_Open(m, "m1")
  \/ \E m \in Mgrs : Manager_Close(m)
  \/ Manager_AddEntry("A", "a", "u1", "p1", "", "n1", <<"b">>, "none")
  \/ Manager_DeleteEntry("A", "a", "none")
  \/ \E kind \in Alterations : Tamper(kind)

SpecTamper == Start({NoFile}) /\ [][NextTamper]_vars

(* ------------------- two managers on one vault path -------------------- *)

\* both managers are constructed on the storage of path pA, which holds no file
InitShared ==
  /\ mgr = [m \in Mgrs |-> NewManager]
  /\ bind = [m \in Mgrs |-> "pA"]
  /\ local = [p \in Paths |-> NoFile]
  /\ remote = NoFile
  /\ clock = 0
  /\ rnd = 0
  /\ pulled = [m \in Mgrs |-> FALSE]
  /\ dropped = [m \in Mgrs |-> Nil]
  /\ disk = [f \in FileNames |-> NoFile]
  /\ wr = Idle
  /\ last = Ret("NewManager", "A", "", "ok")

NextShared ==
  \/ Manager_Init("A", "m1", "none")
  \/ \E m \in Mgrs : Manager_Open(m, "m1")
  \/ \E m \in Mgrs : Manager_Close(m)
  \/ \E m \in Mgrs, n \in {"a", "b"} : Manager_AddEntry(m, n, "u1", "p1", "", "", <<>>, "none")
  \/ \E m \in Mgrs : Manager_ListEntries(m)

SpecShared == InitShared /\ [][NextShared]_vars

(* ------------------ a remote store holding anything -------------------- *)

\* what the remote store may hold: nothing, bytes that are no JSON, a vault file
\* with a damaged salt, a vault file
RemoteContents == {NoFile, Garbage, BadSaltFile, MarshalIndent(saveStamp(NewVault(0), 0))}

\* one manager on the seeded vault file, the remote store holding any of these
InitRemote ==
  /\ mgr = [m \in Mgrs |-> NewManager]
  /\ bind = [m \in Mgrs |-> IF m = "A" THEN "pA" ELSE "pB"]
  /\ local = [p \in Paths |-> IF p = "pA" THEN SeedEntriesFile ELSE NoFile]
  /\ remote \in RemoteContents
  /\ clock = 0
  /\ rnd = 0
  /\ pulled = [m \in Mgrs |-> FALSE]
  /\ dropped = [m \in Mgrs |-> Nil]
  /\ disk = [f \in FileNames |-> NoFile]
  /\ wr = Idle
  /\ last = Ret("NewManager", "A", "", "ok")

NextRemote ==
  \/ \E pw \in WrongPasswords : Manager_Open("A", pw)
  \/ Manager_Close("A")
  \/ \E pw \in WrongPasswords : Manager_Pull("A", pw)
  \/ Manager_DeleteEntry("A", "a", "none")
  \/ Manager_GetDecryptedPassword("A", "b")

SpecRemote == InitRemote /\ [][NextRemote]_vars

(* --------------------- the calls that only look ------------------------ *)

NextFrame ==
  \/ \E pw \in WrongPasswords : Manager_Open("A", pw)
  \/ Manager_Close("A")
  \/ Manager_DeleteEntry("A", "a", "none")
  \/ \E f \in {"none", "write"} : Manager_Sync("A", f)
  \/ Query("A", {"b", "zz"}, {"b"})
  \/ Manager_VaultInfo("A")

SpecFrame == InitEntries /\ [][NextFrame]_vars

(* ------------- a store whose checksum does not match its content -------- *)

\* alterations that leave the copy a vault file with a checksum of other content
StaleAlterations == {"version", "checksum", "username"}

\* B opens the altered copy and pushes it, A pulls what B pushed
NextStale ==
  \/ Manager_Init("A", "m1", "none")
  \/ Manager_AddEntry("A", "a", "u1", "p1", "", "", <<>>, "none")
  \/ \E kind \in StaleAlterations : Tamper(kind)
  \/ Manager_Open("B", "m1")
  \/ Manager_Close("B")
  \/ Manager_Sync("B", "none")
  \/ Manager_Pull("A", "m1")
  \/ Manager_AddEntry("B", "b", "u1", "p1", "", "", <<>>, "none")
  \/ Manager_ListEntries("B")

SpecStale == Start({NoFile}) /\ [][NextStale]_vars

(* ------------------ the client's pull into the local store ------------- *)

NextWebDAV ==
  \/ Manager_Open("A", "m1")
  \/ Manager_Close("A")
  \/ \E f \in {"none", "write"} : Client_PullFromWebDAV("A", f)
  \/ Manager_AddEntry("A", "d", "u1", "p1", "", "", <<>>, "none")
  \/ Manager_UpdateEntry("A", "b", [username |-> "u2"], "none")
  \/ Manager_DeleteEntry("A", "a", "none")
  \/ Manager_GetEntry("A", "a")
  \/ Manager_ListEntries("A")

SpecWebDAV == InitRemote /\ [][NextWebDAV]_vars

(* -------------- two LocalStorage.Write calls on one path ---------------- *)

Writers == {"w1", "w2"}

\* a write of byte b at offset off of a file: past the end the gap reads as zeros
WriteAt(bytes, off, b) ==
  IF off < Len(bytes) THEN [bytes EXCEPT ![off + 1] = b]
  ELSE bytes \o [i \in 1..(off - Len(bytes)) |-> 0] \o <<b>>

\* no file exists and neither call has begun; wr holds each call's position, its
\* data, its descriptor's offset and the name its open file now has
InitWriters ==
  /\ mgr = [m \in Mgrs |-> NewManager]
  /\ bind = [m \in Mgrs |-> "pA"]
  /\ local = [p \in Paths |-> NoFile]
  /\ remote = NoFile
  /\ clock = 0
  /\ rnd = 0
  /\ pulled = [m \in Mgrs |-> FALSE]
  /\ dropped = [m \in Mgrs |-> Nil]
  /\ disk = [f \in FileNames |-> NoFile]
  /\ wr = [w \in Writers |-> Idle]
  /\ last = Ret("NewManager", "A", "", "ok")

\* writer w calls Write with data; os.MkdirAll finds the directory
Writer_Begin(w, data) ==
  /\ wr[w].pc = "idle"
  /\ wr' = [wr EXCEPT ![w] = [pc |-> "create", data |-> data, off |-> 0, at |-> "none"]]
  /\ UNCHANGED <<mgr, bind, local, remote, clock, rnd, pulled, dropped, disk, last>>

\* os.WriteFile opens path.tmp, creating it or truncating the file that is there
Writer_Create(w) ==
  /\ wr[w].pc = "create"
  /\ disk' = [disk EXCEPT ![tmpPath("pA")] = [bytes |-> <<>>]]
  /\ wr' = [wr EXCEPT ![w].pc = "write", ![w].at = tmpPath("pA")]
  /\ UNCHANGED <<mgr, bind, local, remote, clock, rnd, pulled, dropped, last>>

\* os.WriteFile writes the next byte of data through w's descriptor, to the file
\* it opened under whatever name that file now has
Writer_Byte(w) ==
  /\ wr[w].pc = "write"
  /\ wr[w].off < Len(wr[w].data.bytes)
  /\ disk' = IF wr[w].at = "none" THEN disk
             ELSE [disk EXCEPT ![wr[w].at].bytes =
                     WriteAt(@, wr[w].off, wr[w].data.bytes[wr[w].off + 1])]
  /\ wr' = [wr EXCEPT ![w].off = @ + 1]
  /\ UNCHANGED <<mgr, bind, local, remote, clock, rnd, pulled, dropped, last>>

\* os.WriteFile has written every byte and closes the descriptor
Writer_CloseTmp(w) ==
  /\ wr[w].pc = "write"
  /\ wr[w].off = Len(wr[w].data.bytes)
  /\ wr' = [wr EXCEPT ![w].pc = "rename", ![w].at = "none"]
  /\ UNCHANGED <<mgr, bind, local, remote, clock, rnd, pulled, dropped, disk, last>>

\* os.Rename(path.tmp, path): with no file at path.tmp it fails and Write returns
\* the error; otherwise the file moves, and with it every descriptor open on it,
\* while a descriptor open on the file that was at path is left on no name
Writer_Rename(w) ==
  /\ wr[w].pc = "rename"
  /\ IF disk[tmpPath("pA")] = NoFile
     THEN /\ wr' = [wr EXCEPT ![w].pc = "failed"]
          /\ UNCHANGED disk
     ELSE /\ disk' = Rename(disk, tmpPath("pA"), "pA")
          /\ wr' = [u \in Writers |->
                      IF u = w THEN [wr[u] EXCEPT !.pc = "done"]
                      ELSE IF wr[u].pc # "write" THEN wr[u]
                      ELSE IF wr[u].at = tmpPath("pA") THEN [wr[u] EXCEPT !.at = "pA"]
                      ELSE [wr[u] EXCEPT !.at = "none"]]
  /\ UNCHANGED <<mgr, bind, local, remote, clock, rnd, pulled, dropped, last>>

NextWriters ==
  \E w \in Writers :
    \/ \E data \in Contents : Writer_Begin(w, data)
    \/ Writer_Create(w)
    \/ Writer_Byte(w)
    \/ Writer_CloseTmp(w)
    \/ Writer_Rename(w)

SpecWriters == InitWriters /\ [][NextWriters]_vars

(* ------------------------------- claims -------------------------------- *)

Mutators == {"AddEntry", "UpdateEntry", "DeleteEntry"}

\* an Encrypt output: base64 text of nonce || sealed bytes
IsCiphertext(s) == "b64" \in DOMAIN s /\ "sealed" \in DOMAIN s.b64

\* the secret field of a stored entry holds nothing but ciphertext
SealedInFile(file) ==
  IsVaultJSON(file) =>
    \A i \in DOMAIN file.entries :
      /\ IsCiphertext(file.entries[i].password)
      /\ "notes" \in DOMAIN file.entries[i] => IsCiphertext(file.entries[i].notes)

SealedInMemory(v) ==
  \A i \in DOMAIN v.Entries :
    /\ IsCiphertext(v.Entries[i].Password)
    /\ v.Entries[i].Notes = Str("") \/ IsCiphertext(v.Entries[i].Notes)

\* C1: in every reachable state the password of every entry in a manager's vault, in
\* a local store and in the remote store is an Encrypt output, and the notes are
\* empty or an Encrypt output; no plaintext given to AddEntry or UpdateEntry is stored.
C1_SecretsSealed ==
  /\ \A m \in Mgrs : mgr[m].open => SealedInMemory(mgr[m].vault)
  /\ \A p \in Paths : SealedInFile(local[p])
  /\ SealedInFile(remote)

\* C1 witness: a pushed vault whose entry was given password "p2" and notes "n2" by
\* UpdateEntry, the local store holding the same content
C1_Witness ==
  /\ last.op = "Sync" /\ last.err = "ok"
  /\ IsVaultJSON(remote) /\ remote = local["pA"]
  /\ \E i \in DOMAIN remote.entries :
       /\ "notes" \in DOMAIN remote.entries[i]
       /\ remote.entries[i].password.b64.sealed.pt = "p2"
       /\ remote.entries[i].notes.b64.sealed.pt = "n2"

NamesUnique(names) ==
  \A i, k \in DOMAIN names : names[i] = names[k] => i = k

C2_Unique ==
  /\ \A m \in Mgrs :
       mgr[m].open => NamesUnique([i \in DOMAIN mgr[m].vault.Entries |-> mgr[m].vault.Entries[i].Name])
  /\ \A p \in Paths :
       IsVaultJSON(local[p]) => NamesUnique([i \in DOMAIN local[p].entries |-> local[p].entries[i].name])

\* AddEntry(n) on an open vault is refused as a duplicate exactly when an entry named
\* n, letter for letter, is present: not when only a differently cased name is, and
\* not when n was deleted before
C2_AddRefusedIffPresent ==
  (last'.op = "AddEntry" /\ mgr[last'.m].open) =>
    ((last'.err = "vault: entry already exists")
       <=> (\E i \in DOMAIN mgr[last'.m].vault.Entries :
              mgr[last'.m].vault.Entries[i].Name = last'.arg))

\* C2: no two entries present in the vault have the same name under exact comparison;
\* uniqueness is among present entries only, so names differing in case coexist and
\* AddEntry(n) succeeds again after DeleteEntry(n).
C2_NameUniqueness == [](C2_Unique) /\ [][C2_AddRefusedIffPresent]_vars

\* C2 witness: "a" and "A" are both present, in memory and in the store
C2_Witness ==
  /\ last.op = "AddEntry" /\ last.err = "ok"
  /\ Len(mgr["A"].vault.Entries) = 2
  /\ {mgr["A"].vault.Entries[i].Name : i \in 1..2} = {"a", "A"}
  /\ {local["pA"].entries[i].name : i \in 1..2} = {"a", "A"}

\* the checksum field of a vault file is the checksum of the file with that field blank
ChecksumValid(file) ==
  /\ IsVaultJSON(file)
  /\ file.checksum = ComputeChecksum([file EXCEPT !.checksum = Str("")])

\* C4: every content that save writes to the local store carries the checksum of that
\* same vault serialized with the checksum blank, computed after updatedAt was
\* stamped; a checksum computed for an earlier content is never written.
C4_ChecksumFresh ==
  [][ \A p \in Paths :
        local'[p] # local[p] =>
          /\ ChecksumValid(local'[p])
          /\ clock' = clock + 1
          /\ local'[p].updated_at = TimeMarshal(TimeNow(clock'))
          /\ IsVaultJSON(local[p]) => local'[p].checksum # local[p].checksum ]_vars

\* C4 witness: UpdateEntry has persisted over an earlier vault file
C4_Witness ==
  /\ last.op = "UpdateEntry" /\ last.err = "ok"
  /\ ChecksumValid(local["pA"])
  /\ local["pA"].updated_at = TimeMarshal(TimeNow(clock))
  /\ local["pA"].created_at # local["pA"].updated_at

\* C5: whenever AddEntry, UpdateEntry or DeleteEntry returns success, the local store
\* holds the serialization of the manager's in-memory vault.
C5_PersistedOnSuccess ==
  (last.op \in Mutators /\ last.err = "ok") =>
    local[bind[last.m]] = MarshalIndent(mgr[last.m].vault)

\* C5 witness: a successful DeleteEntry has emptied the vault again
C5_Witness ==
  /\ last.op = "DeleteEntry" /\ last.err = "ok"
  /\ mgr["A"].vault.Entries = <<>>
  /\ IsVaultJSON(local["pA"]) /\ local["pA"].entries = <<>>

\* C3 as claimed: the salt held in a local vault file is the same after every step,
\* a persist that follows a Pull included.
C3_SaltNeverChanges ==
  [][ \A p \in Paths :
        IsVaultJSON(local[p]) => IsVaultJSON(local'[p]) /\ local'[p].salt = local[p].salt ]_vars

\* C3 amended: a step changes the salt in the vault file of a manager only when a
\* Pull of that manager has succeeded before; and every successful persist writes
\* the salt of the in-memory vault, which after a Pull is the pulled vault's salt.
C3_SaltChangesOnlyAfterPull ==
  [][ \A m \in Mgrs :
        /\ (IsVaultJSON(local[bind[m]]) /\ ~pulled[m]) =>
             (IsVaultJSON(local'[bind[m]]) /\ local'[bind[m]].salt = local[bind[m]].salt)
        /\ (last'.m = m /\ last'.op \in Mutators \cup {"Init"} /\ last'.err = "ok") =>
             /\ local'[bind[m]].salt = EncodeToString(mgr'[m].salt)
             /\ mgr'[m].vault.Salt = EncodeToString(mgr'[m].salt) ]_vars

\* C3 witness: A's Init drew the first salt and B's Init the second (only Init takes
\* a single draw from a fresh source); A then pulled B's vault and added an entry,
\* and A's vault file now holds the second salt
C3_Witness ==
  /\ last = Ret("AddEntry", "A", "a", "ok")
  /\ pulled["A"]
  /\ IsVaultJSON(local["pA"]) /\ IsVaultJSON(local["pB"])
  /\ local["pB"].salt = EncodeToString(GenerateSalt(2))
  /\ local["pA"].salt = local["pB"].salt

\* C6 as claimed: Init succeeds only from Closed with no file at the vault path; on an
\* Open manager, or with a file present, it fails with VaultExists and changes nothing.
C6_InitOnlyFromClosedNoStore ==
  [][ (last'.op = "Init" /\ (mgr[last'.m].open \/ Exists(local[bind[last'.m]]))) =>
        /\ last'.err = "vault: already exists"
        /\ mgr' = mgr /\ local' = local /\ remote' = remote ]_vars

C8_FailedInitStaysClosed ==
  [][ (last'.op = "Init" /\ last'.err # "ok" /\ ~mgr[last'.m].open) =>
        mgr'[last'.m] = NewManager ]_vars

\* C9: Open on an Open manager fails with AlreadyOpen whatever the vault path holds
\* and leaves vault and key unchanged; Open on a Closed manager with no file at the
\* vault path fails with the store's NotFound and the manager stays Closed.
C9_OpenPreconditions ==
  [][ last'.op = "Open" =>
        LET m == last'.m IN
        /\ mgr[m].open =>
             (last'.err = "vault: already open" /\ mgr' = mgr /\ local' = local)
        /\ (~mgr[m].open /\ ~Exists(local[bind[m]])) =>
             (last'.err = "storage: not found" /\ mgr'[m] = NewManager /\ local' = local) ]_vars

\* C9 witness: Open was refused as AlreadyOpen although no file exists at the vault
\* path, where a read would have answered NotFound
C9_Witness ==
  /\ last = Ret("Open", "A", "", "vault: already open")
  /\ mgr["A"].open
  /\ local["pA"] = NoFile

\* the salt field of a vault file is not base64 text
SaltNotBase64(file) ==
  IsVaultJSON(file) /\ file.salt # Str("") /\ "b64" \notin DOMAIN file.salt

\* C10: Open on bytes that do not deserialize as a vault, or whose salt is not valid
\* base64, fails with Corrupted and leaves the manager Closed with no key, salt or vault.
C10_OpenCorrupted ==
  [][ (last'.op = "Open" /\ ~mgr[last'.m].open
         /\ Exists(local[bind[last'.m]])
         /\ (~IsVaultJSON(local[bind[last'.m]]) \/ SaltNotBase64(local[bind[last'.m]]))) =>
        /\ last'.err = "vault: corrupted data"
        /\ mgr'[last'.m] = NewManager ]_vars

\* C10 witness: Open has failed with Corrupted on the vault file with the damaged salt
C10_Witness ==
  /\ last = Ret("Open", "A", "", "vault: corrupted data")
  /\ local["pA"] = BadSaltFile
  /\ mgr["A"] = NewManager

\* the session key of mg is not the key under which the text s was sealed
SealedUnderOtherKey(mg, s) == IsCiphertext(s) /\ s.b64.sealed.key # mg.crypto.key

\* Open accepts any master password on a well-formed vault file
C11_OpenAcceptsAnyPassword ==
  LET m == last'.m
      file == local[bind[m]]
  IN (last'.op = "Open" /\ ~mgr[m].open /\ IsVaultJSON(file) /\ DecodeString(file.salt).ok) =>
       /\ last'.err = "ok"
       /\ mgr'[m].open
       /\ mgr'[m].vault = Unmarshal(file).v

\* a GetDecryptedPassword that has returned for an entry sealed under another key
\* has failed with DecryptionFailed and returned no plaintext
C11_WrongKeyNeverDecrypts ==
  (last.op = "GetDecryptedPassword" /\ mgr[last.m].open) =>
    \A i \in DOMAIN mgr[last.m].vault.Entries :
      LET e == mgr[last.m].vault.Entries[i]
      IN (e.Name = last.arg /\ SealedUnderOtherKey(mgr[last.m], e.Password)) =>
           (last.err = "decryption failed" /\ last.res = "")

\* C11: Open with a master password other than the one the stored entries were
\* sealed under succeeds and leaves the manager Open; every GetDecryptedPassword on
\* an entry sealed under the other key then fails with DecryptionFailed and returns
\* no plaintext.
C11_WrongPasswordSurfacesOnDecrypt ==
  [][C11_OpenAcceptsAnyPassword]_vars /\ [](C11_WrongKeyNeverDecrypts)

\* C11 witness: the vault was opened with "m2", the entry "a" was sealed under a key
\* derived from "m1", and GetDecryptedPassword("a") has failed
C11_Witness ==
  /\ last = RetVal("GetDecryptedPassword", "A", "a", "decryption failed", "")
  /\ mgr["A"].open /\ mgr["A"].crypto.key.pw = "m2"
  /\ \E i \in DOMAIN mgr["A"].vault.Entries :
       /\ mgr["A"].vault.Entries[i].Name = "a"
       /\ mgr["A"].vault.Entries[i].Password.b64.sealed.key.pw = "m1"

\* C12: in an Open vault GetEntry(n) right after a successful AddEntry(n) returns an
\* entry named n; AddEntry(n) while n is present fails with EntryExists and leaves
\* the vault and the stores unchanged; GetEntry(n) right after a successful
\* DeleteEntry(n) fails with EntryNotFound.
C12_AddGetDelete ==
  [][ /\ (last = Ret("AddEntry", last'.m, last'.arg, "ok") /\ last'.op = "GetEntry") =>
           (last'.err = "ok" /\ last'.res.Name = last'.arg)
      /\ (last'.op = "AddEntry" /\ mgr[last'.m].open
             /\ GetEntry(mgr[last'.m], last'.arg).err = "ok") =>
           (last'.err = "vault: entry already exists"
              /\ mgr' = mgr /\ local' = local /\ remote' = remote)
      /\ (last = Ret("DeleteEntry", last'.m, last'.arg, "ok") /\ last'.op = "GetEntry") =>
           (last'.err = "vault: entry not found" /\ last'.res = Nil) ]_vars

\* C12 witness: Init, AddEntry("a") and DeleteEntry("a") took the three clock
\* readings, and GetEntry("a") has answered EntryNotFound
C12_Witness ==
  /\ last = RetVal("GetEntry", "A", "a", "vault: entry not found", Nil)
  /\ mgr["A"].open /\ mgr["A"].vault.Entries = <<>>
  /\ clock = 3 /\ rnd >= 3
  /\ IsVaultJSON(local["pA"]) /\ local["pA"].entries = <<>>

NeedOpen ==
  { "AddEntry", "GetEntry", "GetDecryptedPassword", "GetDecryptedNotes", "ListEntries",
    "UpdateEntry", "DeleteEntry", "SearchEntries", "Sync" }

\* C13: on a Closed manager each of AddEntry, GetEntry, GetDecryptedPassword,
\* GetDecryptedNotes, ListEntries, UpdateEntry, DeleteEntry, SearchEntries and Sync
\* fails with NotOpen and changes neither the manager nor any store.
C13_ClosedRefusesAll ==
  [][ (last'.op \in NeedOpen /\ ~mgr[last'.m].open) =>
        /\ last'.err = "vault: not open"
        /\ mgr' = mgr /\ local' = local /\ remote' = remote
        /\ clock' = clock /\ rnd' = rnd /\ dropped' = dropped ]_vars

\* C13 witness: ListEntries was refused on a manager that was closed over its file
C13_Witness ==
  /\ last = RetVal("ListEntries", "A", "", "vault: not open", <<>>)
  /\ mgr["A"] = NewManager
  /\ IsVaultJSON(local["pA"]) /\ Len(local["pA"].entries) = 1

\* C14: Close returns in either state; afterwards the manager is Closed with no
\* engine, vault or salt, every byte of the key it held is zero, the stores are
\* untouched, and Close on a Closed manager changes nothing.
C14_CloseZeroesAndDrops ==
  [][ last'.op = "Close" =>
        LET m == last'.m IN
        /\ last'.err = "ok"
        /\ mgr'[m] = NewManager
        /\ mgr[m].crypto # Nil => dropped'[m] = [len |-> 32, val |-> 0]
        /\ local' = local /\ remote' = remote
        /\ ~mgr[m].open => (mgr' = mgr /\ dropped' = dropped) ]_vars

\* C14 witness: Close has returned on a manager that had been Open under a key
C14_Witness ==
  /\ last = Ret("Close", "A", "", "ok")
  /\ mgr["A"] = NewManager
  /\ dropped["A"] = Clear(deriveKey("m1", GenerateSalt(1)))
  /\ IsVaultJSON(local["pA"])

C16_PushLastWriterWins ==
  [][ (last'.op = "Sync" /\ mgr[last'.m].open) =>
        /\ last'.err = "ok"
        /\ remote' = MarshalIndent(mgr[last'.m].vault)
        /\ mgr' = mgr /\ local' = local ]_vars

\* C16 witness: B holds A's vault, which only a push by A can have brought it, has
\* deleted the entry, and has pushed; the remote holds no entry, A still has one
C16_Witness ==
  /\ last = Ret("Sync", "B", "", "ok")
  /\ pulled["B"] /\ mgr["B"].salt = mgr["A"].salt
  /\ Len(mgr["A"].vault.Entries) = 1
  /\ remote.entries = <<>>

\* the names of the entries in a vault file
FileNamesOf(file) == {file.entries[i].name : i \in DOMAIN file.entries}

\* C17: after a successful Pull the manager is Open, its vault is the vault parsed
\* from the remote bytes, its key is derived from the given password and the remote
\* vault's salt, the key it held before is zeroed, and GetEntry, ListEntries and
\* SearchEntries answer from the pulled entries only.
C17_PullReplacesMemory ==
  [][ (last'.op = "Pull" /\ last'.err = "ok") =>
        LET m == last'.m
            parsed == Unmarshal(remote).v
            salt == DecodeString(remote.salt).val
        IN /\ mgr'[m].open
           /\ mgr'[m].vault = parsed
           /\ mgr'[m].salt = salt
           /\ \E pw \in WrongPasswords : mgr'[m].crypto.key = deriveKey(pw, salt)
           /\ mgr[m].open => dropped'[m] = [len |-> 32, val |-> 0]
           /\ \A n \in Names : GetEntry(mgr'[m], n).err = "ok" <=> n \in FileNamesOf(remote)
           /\ ListEntries(mgr'[m]).res = parsed.Entries
           /\ \A q \in Queries \cup {""} :
                \A i \in DOMAIN SearchEntries(mgr'[m], q).res :
                  SearchEntries(mgr'[m], q).res[i].Name \in FileNamesOf(remote) ]_vars

\* C17 witness: B, whose own vault file has the entry "a", has pulled an empty vault
\* over its open vault, and GetEntry("a") has answered EntryNotFound
C17_Witness ==
  /\ last = RetVal("GetEntry", "B", "a", "vault: entry not found", Nil)
  /\ pulled["B"] /\ mgr["B"].open /\ mgr["B"].vault.Entries = <<>>
  /\ dropped["B"] = [len |-> 32, val |-> 0]
  /\ IsVaultJSON(local["pB"]) /\ FileNamesOf(local["pB"]) = {"a"}

\* C18 as claimed: after a successful Pull the local store holds the pulled vault.
C18_PullPersistsLocally ==
  [][ (last'.op = "Pull" /\ last'.err = "ok") =>
        local'[bind[last'.m]] = remote ]_vars

\* the fields of two entries are the same, the timestamps as instants
SameEntry(e, f) ==
  /\ e.ID = f.ID /\ e.Name = f.Name /\ e.Username = f.Username
  /\ e.Password = f.Password /\ e.URL = f.URL /\ e.Notes = f.Notes /\ e.Tags = f.Tags
  /\ e.CreatedAt.wall = f.CreatedAt.wall /\ e.UpdatedAt.wall = f.UpdatedAt.wall

\* C19: when B pulls what A pushed (the remote holds A's vault as A has it) with the
\* master password of A's session, B's entries are A's entries in the same order
\* with the same fields, and GetDecryptedPassword answers in B as it does in A.
C19_PushPullRoundTrip ==
  [][ \A a \in Mgrs :
        (last'.op = "Pull" /\ last'.err = "ok" /\ last'.m # a /\ mgr[a].open
           /\ remote = MarshalIndent(mgr[a].vault)
           /\ mgr'[last'.m].crypto.key.pw = mgr[a].crypto.key.pw) =>
          LET b == last'.m IN
          /\ Len(mgr'[b].vault.Entries) = Len(mgr[a].vault.Entries)
          /\ \A i \in DOMAIN mgr[a].vault.Entries :
               SameEntry(mgr'[b].vault.Entries[i], mgr[a].vault.Entries[i])
          /\ \A n \in Names :
               GetDecryptedPassword(mgr'[b], n) = GetDecryptedPassword(mgr[a], n) ]_vars

\* C19 witness: A holds the entry "a" it sealed and pushed, B has pulled it under
\* the same master password, and GetDecryptedPassword("a") in B has returned "p1"
C19_Witness ==
  /\ last = RetVal("GetDecryptedPassword", "B", "a", "ok", "p1")
  /\ pulled["B"] /\ ~pulled["A"]
  /\ remote = MarshalIndent(mgr["A"].vault)
  /\ mgr["A"].open /\ Len(mgr["A"].vault.Entries) = 1
  /\ mgr["B"].crypto.key = mgr["A"].crypto.key
  /\ mgr["B"].vault.Entries[1].CreatedAt # mgr["A"].vault.Entries[1].CreatedAt

\* C20: with a single writer, whenever a Write is under way or has been interrupted
\* at any point, the content at the vault path is the complete content from before
\* the call or the complete content the call was given; after a Write that ran to
\* its end it is a complete content that some call was given.
C20_WriteOldOrNew ==
  /\ wr.pc # "idle" => disk["pA"] \in {wr.old, wr.data}
  /\ disk["pA"] \in Contents \cup {NoFile}

\* C20 witness: a Write of two bytes over an earlier one-byte content was
\* interrupted with one byte in the temporary file; the vault path holds the old
\* content
C20_Witness ==
  /\ wr.pc = "stopped"
  /\ Len(wr.data.bytes) = 2 /\ wr.old \in Contents /\ Len(wr.old.bytes) = 1
  /\ disk[tmpPath("pA")] # NoFile /\ Len(disk[tmpPath("pA")].bytes) = 1
  /\ disk["pA"] = wr.old

\* C21 as claimed: when AddEntry, UpdateEntry or DeleteEntry on an Open manager
\* returns an error, the entries of the in-memory vault are as they were before the
\* call.
C21_FailedMutationLeavesMemory ==
  [][ (last'.op \in Mutators /\ last'.err # "ok" /\ mgr[last'.m].open) =>
        mgr'[last'.m].vault.Entries = mgr[last'.m].vault.Entries ]_vars

\* C22: a successful UpdateEntry(n, updates) keeps the number and order of the
\* entries, leaves every other entry as it was, and in the entry named n keeps id,
\* name, creation time and tags; username and url take the map's value when their
\* key is present and stay otherwise, password and notes are re-sealed from the
\* map's value when their key is present and stay otherwise, and the update time
\* becomes the time of the call. Keys such as name, tags or id have no effect.
C22_UpdateTouchesOnlyNamedFields ==
  [][ (last'.op = "UpdateEntry" /\ last'.err = "ok") =>
        LET u == last'.updates
            old == mgr[last'.m].vault.Entries
            new == mgr'[last'.m].vault.Entries
            has(k) == k \in DOMAIN u
        IN /\ Len(new) = Len(old)
           /\ \A i \in 1..Len(old) :
                IF old[i].Name # last'.arg THEN new[i] = old[i]
                ELSE /\ new[i].ID = old[i].ID
                     /\ new[i].Name = old[i].Name
                     /\ new[i].CreatedAt = old[i].CreatedAt
                     /\ new[i].Tags = old[i].Tags
                     /\ new[i].Username = IF has("username") THEN u.username ELSE old[i].Username
                     /\ new[i].URL = IF has("url") THEN u.url ELSE old[i].URL
                     /\ IF has("password")
                        THEN IsCiphertext(new[i].Password) /\ new[i].Password.b64.sealed.pt = u.password
                        ELSE new[i].Password = old[i].Password
                     /\ IF ~has("notes") THEN new[i].Notes = old[i].Notes
                        ELSE IF u.notes = "" THEN new[i].Notes = Str("")
                        ELSE IsCiphertext(new[i].Notes) /\ new[i].Notes.b64.sealed.pt = u.notes
                     /\ new[i].UpdatedAt = TimeNow(clock') ]_vars

\* an UpdateEntry given only keys it does not know has returned, and the entry it
\* named is where and what it was but for the update time
C22_Witness ==
  /\ last.op = "UpdateEntry" /\ last.err = "ok" /\ last.arg = "b"
  /\ DOMAIN last.updates = {"name", "tags", "id"}
  /\ Len(mgr["A"].vault.Entries) = 3
  /\ mgr["A"].vault.Entries[2].Name = "b"
  /\ mgr["A"].vault.Entries[2].Username = "u1"
  /\ mgr["A"].vault.Entries[2].UpdatedAt # mgr["A"].vault.Entries[2].CreatedAt

\* C23: a successful UpdateEntry(n, updates) whose map has notes = "" leaves the
\* entry's notes as the empty string, in memory and (the key being omitted) in the
\* file; and GetDecryptedNotes on an open manager for an entry whose notes are the
\* empty string returns "" with no error, whatever the session's key.
C23_EmptyNotesNeedNoKey ==
  [][ LET m == last'.m
          i == findEntryIndexByName(mgr'[m].vault, last'.arg)
      IN /\ (last'.op = "UpdateEntry" /\ last'.err = "ok"
               /\ "notes" \in DOMAIN last'.updates /\ last'.updates.notes = "") =>
               /\ mgr'[m].vault.Entries[i].Notes = Str("")
               /\ "notes" \notin DOMAIN local'[bind[m]].entries[i]
         /\ (last'.op = "GetDecryptedNotes" /\ mgr'[m].open /\ i # 0
               /\ mgr'[m].vault.Entries[i].Notes = Str("")) =>
               (last'.err = "ok" /\ last'.res = "") ]_vars

\* the notes of entry b, sealed when the session began, have been cleared in a
\* session whose key does not open b's password, and GetDecryptedNotes returned ""
C23_Witness ==
  /\ last.op = "GetDecryptedNotes" /\ last.arg = "b" /\ last.err = "ok" /\ last.res = ""
  /\ mgr["A"].open /\ findEntryByName(mgr["A"].vault, "b")
  /\ LET e == mgr["A"].vault.Entries[findEntryIndexByName(mgr["A"].vault, "b")]
     IN /\ e.Notes = Str("")
        /\ GetDecryptedPassword(mgr["A"], "b").err = "decryption failed"

\* C24: right after a successful AddEntry the new entry's password decrypts to the
\* password given, right after a successful UpdateEntry with a password key the
\* entry's password decrypts to the map's value, and GetDecryptedPassword on an open
\* manager whose master password is the one the entry's password was sealed under
\* (in this session or an earlier one on the same store) returns that password.
C24_PasswordRoundTrip ==
  [][ LET m == last'.m
          mg == mgr'[m]
          i == findEntryIndexByName(mg.vault, last'.arg)
          pw == mg.vault.Entries[i].Password
      IN /\ (last'.op = "AddEntry" /\ last'.err = "ok") =>
               GetDecryptedPassword(mg, last'.arg) = [err |-> "ok", res |-> AddedPassword]
         /\ (last'.op = "UpdateEntry" /\ last'.err = "ok" /\ "password" \in DOMAIN last'.updates) =>
               GetDecryptedPassword(mg, last'.arg) = [err |-> "ok", res |-> last'.updates.password]
         /\ (last'.op = "GetDecryptedPassword" /\ mg.open /\ i # 0 /\ IsCiphertext(pw)
               /\ pw.b64.sealed.key.pw = mg.crypto.key.pw) =>
               (last'.err = "ok" /\ last'.res = pw.b64.sealed.pt) ]_vars

\* entry d, added in one session, was read back from the file by a later session
\* (its times have lost the monotonic reading, an engine has been let go), and
\* GetDecryptedPassword returned the password it was added with
C24_Witness ==
  /\ last.op = "GetDecryptedPassword" /\ last.arg = "d"
  /\ last.err = "ok" /\ last.res = AddedPassword
  /\ dropped["A"] # Nil
  /\ mgr["A"].open /\ findEntryByName(mgr["A"].vault, "d")
  /\ ~mgr["A"].vault.Entries[findEntryIndexByName(mgr["A"].vault, "d")].CreatedAt.mono

\* C25: SearchEntries(q) on an open manager returns, with no error, the entries of
\* the vault, in vault order, whose lower-cased name, username, url or some tag
\* contains the lower-cased q; no entry is returned twice, the password and notes
\* plaintexts are not searched, and the empty query returns every entry.
C25_SearchIsFilter ==
  (last.op = "SearchEntries" /\ mgr[last.m].open) =>
    LET q == ToLower(last.arg)
        es == mgr[last.m].vault.Entries
        Hit(e) == \/ Contains(ToLower(e.Name), q)
                  \/ Contains(ToLower(e.Username), q)
                  \/ Contains(ToLower(e.URL), q)
                  \/ \E k \in DOMAIN e.Tags : Contains(ToLower(e.Tags[k]), q)
    IN /\ last.err = "ok"
       /\ last.res = SelectSeq(es, Hit)
       /\ \A i \in DOMAIN last.res, j \in DOMAIN last.res : i # j => last.res[i] # last.res[j]
       /\ last.arg = "" => last.res = es
       /\ last.arg \in {"n", "p"} => last.res = <<>>

\* a search for "b" has returned entry a (hit in a tag only), entry b (hit in its
\* name and in a tag) once, and entry A (hit in the url), in vault order, and not d
C25_Witness ==
  /\ last.op = "SearchEntries" /\ last.arg = "b" /\ last.err = "ok"
  /\ Len(mgr["A"].vault.Entries) = 4
  /\ Len(last.res) = 3
  /\ last.res[1].Name = "a" /\ last.res[2].Name = "b" /\ last.res[3].Name = "A"
  /\ last.res[2].Tags = <<"b">>

\* C26: a successful AddEntry leaves the old entries where they were and puts the
\* new one after them; a successful DeleteEntry(n) leaves exactly the entries not
\* named n, in their old order; a successful UpdateEntry leaves every entry at its
\* index; and DeleteEntry on an open manager with a name no entry has returns
\* EntryNotFound with the manager and the store as they were.
C26_InsertionOrderKept ==
  [][ LET m == last'.m
          old == mgr[m].vault.Entries
          new == mgr'[m].vault.Entries
          Other(e) == e.Name # last'.arg
      IN /\ (last'.op = "AddEntry" /\ last'.err = "ok") =>
               /\ Len(new) = Len(old) + 1
               /\ SubSeq(new, 1, Len(old)) = old
               /\ new[Len(new)].Name = last'.arg
         /\ (last'.op = "DeleteEntry" /\ last'.err = "ok") =>
               /\ Len(new) = Len(old) - 1
               /\ new = SelectSeq(old, Other)
         /\ (last'.op = "UpdateEntry" /\ last'.err = "ok") =>
               /\ Len(new) = Len(old)
               /\ \A i \in 1..Len(old) : new[i].ID = old[i].ID /\ new[i].Name = old[i].Name
         /\ (last'.op = "DeleteEntry" /\ mgr[m].open /\ ~findEntryByName(mgr[m].vault, last'.arg)) =>
               /\ last'.err = "vault: entry not found"
               /\ mgr' = mgr /\ local' = local /\ remote' = remote ]_vars

\* entry d was added after the three entries of the file and entry b then deleted
\* from the middle: what is left is a, A, d in that order
C26_Witness ==
  /\ last.op = "DeleteEntry" /\ last.arg = "b" /\ last.err = "ok"
  /\ Len(mgr["A"].vault.Entries) = 3
  /\ mgr["A"].vault.Entries[1].Name = "a"
  /\ mgr["A"].vault.Entries[2].Name = "A"
  /\ mgr["A"].vault.Entries[3].Name = "d"

C28_DecryptInvertsEncrypt ==
  [][ (last.op = "Encrypt" /\ last'.op = "Decrypt" /\ last'.arg = last.res
        /\ last'.key = last.key) =>
        (last'.err = "ok" /\ last'.res = last.arg) ]_vars

\* the ciphertext of the empty plaintext under (m2, salt 2) came back as ""
C28_Witness ==
  /\ last.op = "Decrypt" /\ last.err = "ok" /\ last.res = Str("")
  /\ IsCiphertext(last.arg) /\ last.arg.b64.sealed.pt = ""
  /\ last.key = deriveKey("m2", GenerateSalt(2))

\* the nonces of the ciphertexts the entries es hold under key k, one per field
NoncesUnder(es, k) ==
  [ f \in { x \in (DOMAIN es) \X {"Password", "Notes"} :
               IsCiphertext(es[x[1]][x[2]]) /\ es[x[1]][x[2]].b64.sealed.key = k }
      |-> es[f[1]][f[2]].b64.nonce ]

\* C29 as claimed: of the ciphertexts an open manager holds under its session key,
\* no two carry the same nonce and none carries the all-zero nonce, the random
\* source failing or not.
C29_NoncesNeverRepeat ==
  mgr["A"].open =>
    LET ns == NoncesUnder(mgr["A"].vault.Entries, mgr["A"].crypto.key)
    IN /\ \A f \in DOMAIN ns, g \in DOMAIN ns : f # g => ns[f] # ns[g]
       /\ \A f \in DOMAIN ns : ns[f] # 0

\* C30 as claimed: a successful UpdateEntry whose map has a password key stores a
\* password field sealed under the session key that differs from the one before,
\* and the one before is in no entry of the file written.
C30_UpdateReseals ==
  [][ (last'.op = "UpdateEntry" /\ last'.err = "ok" /\ "password" \in DOMAIN last'.updates) =>
        LET m == last'.m
            i == findEntryIndexByName(mgr[m].vault, last'.arg)
            before == mgr[m].vault.Entries[i].Password
            file == local'[bind[m]]
        IN /\ mgr'[m].vault.Entries[i].Password # before
           /\ mgr'[m].vault.Entries[i].Password.b64.sealed.key = mgr[m].crypto.key
           /\ \A k \in DOMAIN file.entries : file.entries[k].password # before ]_vars

\* the checksum of vault v, serialized with its checksum field blank, is v's checksum
verifyLoaded(v) == VerifyChecksum(MarshalIndent([v EXCEPT !.Checksum = Str("")]), v.Checksum)

\* the vault a manager has just loaded from its file carries the file's checksum
LoadedBy(m) == last.op = "Open" /\ last.m = m /\ last.err = "ok"

\* C31 as claimed: a vault that Open loads from the file the program wrote carries
\* the checksum written and passes the verification, and a vault loaded from an
\* altered copy of that file fails it, whatever was altered.
C31_AnyAlterationDetected ==
  /\ LoadedBy("A") => (mgr["A"].vault.Checksum = local["pA"].checksum /\ verifyLoaded(mgr["A"].vault))
  /\ LoadedBy("B") => ~verifyLoaded(mgr["B"].vault)

\* C31 amended: a vault that Open loads from the file the program wrote carries the
\* checksum written and passes the verification; a vault loaded from a copy in which
\* the value of one key was altered (the checksum's own or another's) fails it; a
\* copy altered only in bytes the JSON decoding discards loads as the same vault and
\* passes.
C31_ChecksumCoversDecodedContent ==
  /\ LoadedBy("A") => (mgr["A"].vault.Checksum = local["pA"].checksum /\ verifyLoaded(mgr["A"].vault))
  /\ LoadedBy("B") => (verifyLoaded(mgr["B"].vault) <=> "layout" \in DOMAIN local["pB"])

\* A has reloaded the vault it persisted and it verifies, while B has loaded a copy
\* with an entry's username altered and it does not
C31_Witness ==
  /\ LoadedBy("B") /\ Len(local["pB"].entries) = 1 /\ local["pB"].entries[1].username = "x"
  /\ ~verifyLoaded(mgr["B"].vault)
  /\ mgr["A"].open /\ ~mgr["A"].vault.CreatedAt.mono
  /\ Len(mgr["A"].vault.Entries) = 1
  /\ verifyLoaded(mgr["A"].vault)

\* the names of the entries in a sequence of entries or of their JSON objects
EntryNames(es) == {es[i].Name : i \in DOMAIN es}
StoredNames(file) == {file.entries[i].name : i \in DOMAIN file.entries}

\* C32: with two managers open on one store, an AddEntry of a name its own vault
\* lacks returns no error whatever the other manager has added, and leaves the
\* store holding the caller's vault alone: an entry the other manager persisted and
\* the caller never loaded is gone from the store.
C32_LastWriterWins ==
  [][ (last'.op = "AddEntry" /\ mgr[last'.m].open
        /\ ~findEntryByName(mgr[last'.m].vault, last'.arg)) =>
        /\ last'.err = "ok"
        /\ local'["pA"] = MarshalIndent(mgr'[last'.m].vault)
        /\ StoredNames(local'["pA"]) = EntryNames(mgr[last'.m].vault.Entries) \cup {last'.arg} ]_vars

\* both managers opened the empty vault, A added a and then B added b: both calls
\* returned no error and the store holds b alone
C32_Witness ==
  /\ last.op = "AddEntry" /\ last.m = "B" /\ last.arg = "b" /\ last.err = "ok"
  /\ mgr["A"].open /\ EntryNames(mgr["A"].vault.Entries) = {"a"}
  /\ mgr["B"].open /\ EntryNames(mgr["B"].vault.Entries) = {"b"}
  /\ mgr["A"].vault.Entries[1].CreatedAt.mono
  /\ StoredNames(local["pA"]) = {"b"}

\* C33: Pull fails exactly when the remote read fails, the remote bytes are no vault
\* or the salt in them is no base64, and a Pull that failed has left the manager's
\* open flag, vault, salt and key object as they were and has zeroed no key.
C33_FailedPullLeavesManager ==
  [][ last'.op = "Pull" =>
        LET rd == Read(remote)
            bad == rd.err # "ok" \/ ~Unmarshal(rd.data).ok
                     \/ ~DecodeString(Unmarshal(rd.data).v.Salt).ok
        IN /\ bad <=> last'.err # "ok"
           /\ bad => (mgr' = mgr /\ dropped' = dropped /\ pulled' = pulled /\ local' = local) ]_vars

\* an open manager holding the three entries under its key has pulled from a remote
\* whose salt is damaged: the Pull failed and the manager still answers
C33_Witness ==
  /\ last.op = "Pull" /\ last.err = "vault: corrupted data"
  /\ remote = BadSaltFile
  /\ mgr["A"].open /\ Len(mgr["A"].vault.Entries) = 3
  /\ mgr["A"].crypto.key = deriveKey("m1", GenerateSalt(0))
  /\ dropped["A"] = Nil
  /\ GetDecryptedPassword(mgr["A"], "b").err = "ok"

\* C34: a manager that is not open holds no key object, no vault and no salt, and a
\* manager that is open holds a key object and a vault.
C34_OpenIffKeyAndVault ==
  \A m \in Mgrs :
    /\ ~mgr[m].open => (mgr[m].crypto = Nil /\ mgr[m].vault = Nil /\ mgr[m].salt = NilBytes)
    /\ mgr[m].open => (mgr[m].crypto # Nil /\ mgr[m].vault # Nil)

\* an Init whose write failed has left the manager open, with key object and vault
\* and no file, and the manager that was never opened holds nothing
C34_Witness ==
  /\ last.op = "Init" /\ last.err = "storage: write failed"
  /\ mgr["A"].open /\ mgr["A"].crypto # Nil /\ mgr["A"].vault # Nil
  /\ local["pA"] = NoFile
  /\ mgr["B"] = NewManager

Lookups ==
  {"GetEntry", "GetDecryptedPassword", "GetDecryptedNotes", "ListEntries", "SearchEntries",
   "VaultInfo"}

\* C35: a call of GetEntry, GetDecryptedPassword, GetDecryptedNotes, ListEntries,
\* SearchEntries or VaultInfo, whatever it returns, leaves the manager's fields, the
\* local store and the remote store as they were; a call of Sync, whatever it
\* returns, leaves the manager's fields (the vault's updatedAt and checksum among
\* them) and the local store as they were, and when it succeeds the remote store
\* holds the vault as it stands in memory.
C35_LookupsAndSyncFrame ==
  [][ /\ last'.op \in Lookups =>
           (mgr' = mgr /\ local' = local /\ remote' = remote /\ dropped' = dropped)
      /\ last'.op = "Sync" =>
           /\ mgr' = mgr /\ local' = local /\ dropped' = dropped
           /\ last'.err = "ok" => remote' = MarshalIndent(mgr[last'.m].vault)
           /\ last'.err # "ok" => remote' = remote ]_vars

\* Sync has pushed the vault the manager loaded: memory and the local file are as
\* Open left them, and the remote holds that vault with its old updatedAt
C35_Witness ==
  /\ last.op = "Sync" /\ last.err = "ok"
  /\ local["pA"] = SeedEntriesFile
  /\ mgr["A"].vault = Unmarshal(SeedEntriesFile).v
  /\ remote = SeedEntriesFile

\* the master password a ciphertext was sealed under
SealedBy(s) == s.b64.sealed.key.pw

\* C36: on an open manager, whatever password opened it, AddEntry of a new name and
\* UpdateEntry of an existing one return no error and the file holds the resulting
\* vault, the secrets written sealed under the session's key; and
\* GetDecryptedPassword of an existing entry fails with DecryptionFailed exactly
\* when the entry's password was sealed in a session of another master password,
\* and otherwise returns the password.
C36_MixedKeysAfterWrongPassword ==
  [][ LET m == last'.m
          i == findEntryIndexByName(mgr'[m].vault, last'.arg)
          e == mgr'[m].vault.Entries[i]
      IN /\ (last'.op = "AddEntry" /\ mgr[m].open /\ ~findEntryByName(mgr[m].vault, last'.arg)) =>
               /\ last'.err = "ok"
               /\ local'[bind[m]] = MarshalIndent(mgr'[m].vault)
               /\ SealedBy(e.Password) = mgr[m].crypto.key.pw
         /\ (last'.op = "UpdateEntry" /\ mgr[m].open /\ findEntryByName(mgr[m].vault, last'.arg)) =>
               /\ last'.err = "ok"
               /\ local'[bind[m]] = MarshalIndent(mgr'[m].vault)
               /\ "password" \in DOMAIN last'.updates => SealedBy(e.Password) = mgr[m].crypto.key.pw
         /\ (last'.op = "GetDecryptedPassword" /\ mgr'[m].open /\ i # 0) =>
               IF SealedBy(e.Password) # mgr'[m].crypto.key.pw
               THEN last'.err = "decryption failed" /\ last'.res = ""
               ELSE last'.err = "ok" /\ last'.res = e.Password.b64.sealed.pt ]_vars

\* in a session opened with m1 on a file reloaded after a session opened with m2
\* added entry d: the password of d does not decrypt, that of b does, and the file
\* holds passwords sealed under both
C36_Witness ==
  /\ last.op = "GetDecryptedPassword" /\ last.arg = "d" /\ last.err = "decryption failed"
  /\ mgr["A"].open /\ mgr["A"].crypto.key.pw = "m1"
  /\ Len(mgr["A"].vault.Entries) = 4
  /\ ~mgr["A"].vault.Entries[4].CreatedAt.mono
  /\ GetDecryptedPassword(mgr["A"], "b").err = "ok"
  /\ {SealedBy(local["pA"].entries[k].password) : k \in 1..4} = {"m1", "m2"}

\* C37: Open of a closed manager on a vault file with a decodable salt, and Pull of
\* such remote bytes, succeed whether or not the checksum in the bytes is that of
\* their content, and the manager's vault then carries that checksum; Sync writes
\* the checksum the vault carries; a call that is no AddEntry, UpdateEntry,
\* DeleteEntry, Init, Open, Pull or Close leaves it as it is; and after a successful
\* AddEntry, UpdateEntry or DeleteEntry the vault's checksum is that of its content.
C37_ChecksumNeverVerified ==
  [][ LET m == last'.m
      IN /\ (last'.op = "Open" /\ ~mgr[m].open /\ IsVaultJSON(local[bind[m]])
               /\ DecodeString(local[bind[m]].salt).ok) =>
               (last'.err = "ok" /\ mgr'[m].vault.Checksum = local[bind[m]].checksum)
         /\ (last'.op = "Pull" /\ IsVaultJSON(remote) /\ DecodeString(remote.salt).ok) =>
               (last'.err = "ok" /\ mgr'[m].vault.Checksum = remote.checksum)
         /\ (last'.op = "Sync" /\ last'.err = "ok") =>
               remote'.checksum = mgr[m].vault.Checksum
         /\ (last'.op \in {"Sync", "ListEntries"} /\ mgr[m].open) =>
               mgr'[m].vault.Checksum = mgr[m].vault.Checksum
         /\ (last'.op \in Mutators /\ last'.err = "ok") => verifyLoaded(mgr'[m].vault) ]_vars

\* A has pulled what B pushed after opening an altered copy: the Pull succeeded and
\* A's vault carries a checksum that is not that of its content, as the remote does
C37_Witness ==
  /\ last.op = "Pull" /\ last.m = "A" /\ last.err = "ok"
  /\ mgr["A"].open /\ ~verifyLoaded(mgr["A"].vault)
  /\ mgr["A"].vault.Checksum = remote.checksum
  /\ mgr["B"].open /\ ~verifyLoaded(mgr["B"].vault)

\* C38: PullFromWebDAV leaves the manager's fields as they were, so the lookups of
\* an open manager answer as before; when it succeeds the local store holds the
\* remote bytes as they are, vault or not; and when the next call on the open
\* manager is a successful AddEntry, UpdateEntry or DeleteEntry, the local store
\* holds the manager's vault, made from the entries it had before the pull, and the
\* pulled bytes are gone from it.
C38_ClientPullBypassesManager ==
  [][ LET m == last'.m
      IN /\ last'.op = "PullFromWebDAV" =>
              /\ mgr' = mgr
              /\ ListEntries(mgr'[m]) = ListEntries(mgr[m])
              /\ \A n \in {"a", "b", "d"} : GetEntry(mgr'[m], n) = GetEntry(mgr[m], n)
              /\ last'.err = "ok" => local'[bind[m]] = remote
              /\ last'.err # "ok" => local' = local
         /\ (last.op = "PullFromWebDAV" /\ last.err = "ok" /\ mgr[m].open
               /\ last'.op \in Mutators /\ last'.err = "ok") =>
              /\ local'[bind[m]] = MarshalIndent(mgr'[m].vault)
              /\ local'[bind[m]] # remote
              /\ StoredNames(local'[bind[m]]) \subseteq EntryNames(mgr[m].vault.Entries) \cup {last'.arg}
              /\ EntryNames(mgr[m].vault.Entries) \ {last'.arg} \subseteq StoredNames(local'[bind[m]]) ]_vars

\* with the manager open on its three entries the client has pulled remote bytes
\* that are no vault: the local store holds them and the manager answers as before
C38_Witness ==
  /\ last.op = "PullFromWebDAV" /\ last.err = "ok"
  /\ remote = Garbage /\ local["pA"] = Garbage
  /\ mgr["A"].open /\ Len(ListEntries(mgr["A"]).res) = 3
  /\ GetEntry(mgr["A"], "a").err = "ok"

\* C39: both writers open the one file named path.tmp; a rename that succeeds
\* takes that file, whatever it holds, to the vault path and leaves no file at
\* path.tmp; and a writer's rename fails only when no file is at path.tmp because
\* the other writer's rename has moved it, and then changes no file.
C39_SharedTemporaryFile ==
  [][ \A w \in Writers :
        /\ (wr[w].pc = "create" /\ wr'[w].pc = "write") => wr'[w].at = tmpPath("pA")
        /\ (wr[w].pc = "rename" /\ wr'[w].pc = "done") =>
             /\ disk'["pA"] = disk[tmpPath("pA")]
             /\ disk'[tmpPath("pA")] = NoFile
        /\ (wr[w].pc = "rename" /\ wr'[w].pc = "failed") =>
             /\ disk[tmpPath("pA")] = NoFile
             /\ \E u \in Writers \ {w} : wr[u].pc = "done"
             /\ disk' = disk ]_vars

\* w1 was given two bytes and w2 one; w1's Write returned without error, w2's rename
\* failed for want of path.tmp, and the vault path holds two bytes that are not
\* w1's data
C39_Witness ==
  /\ wr["w1"].pc = "done" /\ wr["w2"].pc = "failed"
  /\ Len(wr["w1"].data.bytes) = 2 /\ Len(wr["w2"].data.bytes) = 1
  /\ disk["pA"] # NoFile /\ Len(disk["pA"].bytes) = 2
  /\ disk["pA"] # wr["w1"].data /\ disk["pA"] # wr["w2"].data
  /\ disk[tmpPath("pA")] = NoFile

====
